---- MODULE Spec2Model ----
(***************************************************************************)
(* Contract risk analysis pipeline of the smart-contract risk scorer:      *)
(* the data-source resolver, the analyzers and oracle adapters, and the    *)
(* score aggregator, as run by analyzeContract (src/src/agent.js).         *)
(*                                                                         *)
(* Text (token names, symbols, addresses) is a sequence of one-character   *)
(* strings so that lower-casing and substring search are computed.         *)
(* Addresses are abbreviated to "0x" plus their first four hex digits.     *)
(* Scores are integers; the weighted score is kept in tenths of a point    *)
(* (50 + 0.4*i + 0.6*e  is  (500 + 4*i + 6*e) / 10).                       *)
(***************************************************************************)
EXTENDS Integers, Sequences, FiniteSets, TLC

VARIABLES
    pc,                     \* position of the run inside analyzeContract
    req,                    \* the request: contract_address, scan_depth
    trace,                  \* resolver stages entered by the run, in order
    etherscanError,         \* agent.js:87 : getContractInfo threw
    sourcifyData,           \* agent.js:93 : const sourcifyData
    contractInfo,           \* ContractInfo produced by the resolver
    usingFallback,          \* agent.js: let usingFallback
    codeAnalysis,           \* agent.js: let codeAnalysis
    bytecodeFindings,       \* agent.js: let bytecodeFindings
    ownershipAnalysis,      \* agent.js: let ownershipAnalysis
    liquidityAnalysis,      \* agent.js: let liquidityAnalysis
    behaviorAnalysis,       \* agent.js: const behaviorAnalysis
    tokenInfo,              \* agent.js: let tokenInfo
    tokenSnifferResult,     \* agent.js: let tokenSnifferResult
    goplusResult,           \* agent.js: let goplusResult
    creatorHistoryAnalysis, \* agent.js: let creatorHistoryAnalysis
    holderAnalysis,         \* agent.js: let holderAnalysis
    creatorHoldingAnalysis, \* agent.js: let creatorHoldingAnalysis
    result,                 \* value returned by analyzeContract
    scanned,                \* analyzers and scanners the run has invoked
    rows,                   \* table scan_results of the cache database
    now,                    \* Date.now(), in milliseconds
    calls,                  \* invocations of analyzeContract by POST /analyze
    batch,                  \* the POST /analyze-batch request being served
    lp,                     \* one call of analyzeLiquidityPair: the LP-token
                            \* transfers of the pair and the analysis returned
    hist,                   \* one call of analyzeCreatorHistory: the analysis
                            \* object and the position of its loop
    limiter                 \* the rate limiter: its clock, the map
                            \* requestCounts, and what became of the requests

\* the variables of the server: the cache, the clock, the requests in flight
serverVars == << rows, now, calls, batch >>

\* the variables of one run of the pipeline
pipelineVars == << pc, req, trace, etherscanError, sourcifyData, contractInfo, usingFallback, codeAnalysis,
           bytecodeFindings, ownershipAnalysis, liquidityAnalysis,
           behaviorAnalysis, tokenInfo, tokenSnifferResult, goplusResult,
           creatorHistoryAnalysis, holderAnalysis, creatorHoldingAnalysis,
           result, scanned >>

\* the variables of the adapters that are checked on their own
adapterVars == << lp, hist, limiter >>

vars == << pipelineVars, serverVars, adapterVars >>

(***************************************************************************)
(* Text helpers                                                            *)
(***************************************************************************)
UpperChars == <<"A","B","C","D","E","F","G","H","I","J","K","L","M",
                "N","O","P","Q","R","S","T","U","V","W","X","Y","Z">>
LowerChars == <<"a","b","c","d","e","f","g","h","i","j","k","l","m",
                "n","o","p","q","r","s","t","u","v","w","x","y","z">>

\* String.prototype.toLowerCase on one character
LowerChar(c) ==
    IF \E i \in 1..26 : UpperChars[i] = c
    THEN LowerChars[CHOOSE i \in 1..26 : UpperChars[i] = c]
    ELSE c

\* String.prototype.toLowerCase
toLowerCase(s) == [i \in 1..Len(s) |-> LowerChar(s[i])]

\* String.prototype.includes
includes(text, kw) ==
    \E i \in 1..(Len(text) - Len(kw) + 1) : SubSeq(text, i, i + Len(kw) - 1) = kw

\* a finding or vulnerability, by its type and severity
Finding(type, severity) == [type |-> type, severity |-> severity]

Min(a, b) == IF a < b THEN a ELSE b
Max(a, b) == IF a > b THEN a ELSE b

(***************************************************************************)
(* src/src/utils/whitelist.js                                              *)
(***************************************************************************)
KNOWN_SAFE_TOKENS ==
    { <<"0","x","a","0","b","8">>,   \* USDC
      <<"0","x","d","a","c","1">>,   \* USDT
      <<"0","x","6","b","1","7">>,   \* DAI
      <<"0","x","4","f","a","b">>,   \* BUSD
      <<"0","x","c","0","2","a">>,   \* WETH
      <<"0","x","2","2","6","0">>,   \* WBTC
      <<"0","x","5","1","4","9">>,   \* LINK
      <<"0","x","1","f","9","8">>,   \* UNI
      <<"0","x","7","d","1","a">>,   \* MATIC
      <<"0","x","7","f","c","6">>,   \* AAVE
      <<"0","x","6","b","3","5">>,   \* SUSHI
      <<"0","x","c","0","0","e">>,   \* COMP
      <<"0","x","9","f","8","f">>,   \* MKR
      <<"0","x","b","8","c","7">>,   \* BNB
      <<"0","x","5","0","d","1">>,   \* FTT
      <<"0","x","a","0","b","7">>,   \* CRO
      <<"0","x","7","5","2","3">>,   \* OKB
      <<"0","x","6","f","2","5">>,   \* HT
      <<"0","x","4","a","2","2">> }  \* QNT

\* addresses of KNOWN_TOKENS whose entry has allowCentralized: true
KNOWN_TOKENS_allowCentralized ==
    { <<"0","x","a","0","b","8">>,   \* USDC
      <<"0","x","d","a","c","1">>,   \* USDT
      <<"0","x","4","f","a","b">>,   \* BUSD
      <<"0","x","2","2","6","0">> }  \* WBTC

isKnownSafeToken(address) == toLowerCase(address) \in KNOWN_SAFE_TOKENS

allowsCentralizedOwnership(address) ==
    toLowerCase(address) \in KNOWN_TOKENS_allowCentralized

stablecoinKeywords ==
    << <<"u","s","d">>,
       <<"u","s","d","c">>,
       <<"u","s","d","t">>,
       <<"d","a","i">>,
       <<"b","u","s","d">>,
       <<"t","u","s","d">>,
       <<"g","u","s","d">>,
       <<"p","a","x">> >>

isStablecoin(symbol, name) ==
    IF symbol = << >> /\ name = << >>
    THEN FALSE
    ELSE LET text == toLowerCase(symbol \o <<" ">> \o name)
         IN  \E k \in 1..Len(stablecoinKeywords) : includes(text, stablecoinKeywords[k])

(***************************************************************************)
(* src/src/utils/scoring.js                                                *)
(***************************************************************************)
scamKeywords ==
    << <<"s","c","a","m">>,
       <<"b","e","w","a","r","e">>,
       <<"f","a","k","e">>,
       <<"p","h","i","s","h","i","n","g">>,
       <<"w","a","r","n","i","n","g">>,
       <<"h","o","n","e","y","p","o","t">>,
       <<"f","r","a","u","d">>,
       <<"p","o","n","z","i">>,
       <<"r","u","g","p","u","l","l">>,
       <<"r","u","g"," ","p","u","l","l">>,
       <<"e","x","i","t"," ","s","c","a","m">>,
       <<"d","o","n","t"," ","b","u","y">>,
       <<"d","o","n","'","t"," ","b","u","y">>,
       <<"s","t","a","y"," ","a","w","a","y">>,
       <<"a","v","o","i","d">>,
       <<"s","t","o","l","e","n">>,
       <<"h","a","c","k","e","d">> >>

\* detectScamKeywords(name, symbol).isScam
detectScamKeywords(name, symbol) ==
    LET text == toLowerCase(name \o <<" ">> \o symbol)
    IN  \E k \in 1..Len(scamKeywords) : includes(text, scamKeywords[k])


\* detectSuspiciousPatterns(contractInfo, behaviorAnalysis): the findings pushed
detectSuspiciousPatterns(ci) ==
    IF isKnownSafeToken(ci.address)
    THEN << >>
    ELSE (IF /\ ci.ageInDays > 365
             /\ ci.transactionCount < 5000
             \* avgTxPerDay = transactionCount / ageInDays < 1
             /\ ci.transactionCount < ci.ageInDays
             /\ (~ci.verified \/ ci.ageInDays < 730)
          THEN << [type |-> "abandoned_or_suspicious", score |-> 15] >>
          ELSE << >>)
         \o
         (IF ~ci.verified /\ ci.ageInDays > 30
          THEN << [type |-> "unverified_old_contract", score |-> 20] >>
          ELSE << >>)

\* goplusResult.<field> === undefined : parseResponse (README.md:481-537) sets
\* every field of a checked result; an unchecked result has only checked, error
GoPlusFieldUndefined(g, field) == g.kind # "checked"

\* detectAPINotFound(tokenSnifferResult, goplusResult, contractInfo)
detectAPINotFound(ts, g, ci) ==
    LET hasNoCreationData == ~ci.creator /\ ~ci.creationTxHash
        hasNoActivity     == ci.transactionCount = 0
        isOld             == ci.ageInDays > 30
        hasNoData         == /\ GoPlusFieldUndefined(g, "is_honeypot")
                             /\ GoPlusFieldUndefined(g, "buy_tax")
                             /\ GoPlusFieldUndefined(g, "sell_tax")
    IN  IF hasNoCreationData \/ hasNoActivity
        THEN << [type |-> "contract_not_found", score |-> 40] >>
        ELSE (IF g.kind = "unchecked" /\ isOld
              THEN << [type |-> "not_in_security_databases", score |-> 10] >>
              ELSE << >>)
             \o
             (IF g.kind = "checked" /\ isOld /\ hasNoData
              THEN << [type |-> "no_trading_data", score |-> 10] >>
              ELSE << >>)

RECURSIVE SumScores(_)
SumScores(fs) == IF fs = << >> THEN 0 ELSE Head(fs).score + SumScores(Tail(fs))

\* internalAdjustments of calculateRiskScore
internalAdjustments(an) ==
    (IF an.codeAnalysis.analyzed
     THEN an.codeAnalysis.score
     ELSE IF ~an.contractInfo.verified THEN 15 ELSE 0)
    + an.ownershipAnalysis.score
    + an.liquidityAnalysis.score
    + an.behaviorAnalysis.score
    + SumScores(detectSuspiciousPatterns(an.contractInfo))

\* externalAdjustments without the findings of detectAPINotFound
externalAdjustments_WithoutApiNotFound(an) ==
    an.tokenSnifferRisk.score
    + an.goplusRisk.score
    + an.creatorHistoryAnalysis.score
    + an.holderAnalysis.score
    + an.creatorHoldingAnalysis.score

\* externalAdjustments that also receives the suspicious-pattern findings
externalAdjustments_WithSuspiciousPatterns(an) ==
    an.tokenSnifferRisk.score
    + an.goplusRisk.score
    + an.creatorHistoryAnalysis.score
    + an.holderAnalysis.score
    + an.creatorHoldingAnalysis.score
    + SumScores(detectAPINotFound(an.tokenSnifferResult, an.goplusResult, an.contractInfo))
    + SumScores(detectSuspiciousPatterns(an.contractInfo))

\* externalAdjustments of calculateRiskScore
externalAdjustments(an) ==
    an.tokenSnifferRisk.score
    + an.goplusRisk.score
    + an.creatorHistoryAnalysis.score
    + an.holderAnalysis.score
    + an.creatorHoldingAnalysis.score
    + SumScores(detectAPINotFound(an.tokenSnifferResult, an.goplusResult, an.contractInfo))

\* the clamp without its upper bound
clampedScore10_NoUpperBound(an) ==
    Max(0, 500 + 4 * internalAdjustments(an) + 6 * externalAdjustments(an))

\* finalScore after Math.max(0, Math.min(100, baseScore + weightedAdjustments)),
\* in tenths of a point.  4*i + 6*e is even, so the value never ends in .5 and
\* floating-point rounding cannot change the result of Math.round.
clampedScore10(an) ==
    Max(0, Min(1000, 500 + 4 * internalAdjustments(an) + 6 * externalAdjustments(an)))

\* the overrides without the stablecoin cap
overriddenScore10_NoStablecoinCap(an) ==
    IF isKnownSafeToken(an.contractInfo.address)
    THEN Min(clampedScore10(an), 150)
    ELSE clampedScore10(an)

\* the known-safe and stablecoin overrides, in tenths of a point
overriddenScore10(an) ==
    IF isKnownSafeToken(an.contractInfo.address)
    THEN Min(clampedScore10(an), 150)
    ELSE IF an.contractInfo.verified
            /\ isStablecoin(an.contractInfo.symbol, an.contractInfo.name)
         THEN Min(clampedScore10(an), 200)
         ELSE clampedScore10(an)

\* Math.round of a non-negative number given in tenths
MathRound10(x10) == (x10 + 5) \div 10

calculateRiskScore(an) ==
    IF detectScamKeywords(an.contractInfo.name, an.contractInfo.symbol)
    THEN 95
    ELSE MathRound10(overriddenScore10(an))

\* the thresholds taken as strict lower bounds
getRiskLevel_StrictThresholds(score) ==
    IF score > 80 THEN "critical"
    ELSE IF score > 60 THEN "high"
    ELSE IF score > 40 THEN "medium"
    ELSE "low"

\* getRiskLevel(score), scoring.js:271-276
getRiskLevel(score) ==
    IF score >= 80 THEN "critical"
    ELSE IF score >= 60 THEN "high"
    ELSE IF score >= 40 THEN "medium"
    ELSE "low"


\* the sum of the increments without Math.min(1.0, confidence)
calculateConfidence_Uncapped(a) ==
    50
    + (IF a.contractInfo.present /\ a.contractInfo.verified /\ a.codeAnalysis.analyzed
       THEN 15 ELSE 0)
    + 5
    + (IF a.liquidityAnalysis.present THEN 5 ELSE 0)
    + (IF a.contractInfo.present /\ a.contractInfo.ageInDays > 7 THEN 5 ELSE 0)
    + (IF a.tokenSnifferResult.kind = "checked" THEN 10 ELSE 0)
    + (IF a.goplusResult.kind = "checked" THEN 15 ELSE 0)
    + (IF a.creatorHistoryAnalysis.analyzed THEN 10 ELSE 0)

\* calculateConfidence(analyses), in hundredths.  agent.js:285 passes only
\* { codeAnalysis, ownershipAnalysis }: every other field is undefined there,
\* which the record marks with present = FALSE.
calculateConfidence(a) ==
    Min(100,
        50
        + (IF a.contractInfo.present /\ a.contractInfo.verified /\ a.codeAnalysis.analyzed
           THEN 15 ELSE 0)
        \* ownershipAnalysis?.hasOwner !== undefined : hasOwner is always set
        + 5
        + (IF a.liquidityAnalysis.present THEN 5 ELSE 0)
        + (IF a.contractInfo.present /\ a.contractInfo.ageInDays > 7 THEN 5 ELSE 0)
        + (IF a.tokenSnifferResult.kind = "checked" THEN 10 ELSE 0)
        + (IF a.goplusResult.kind = "checked" THEN 15 ELSE 0)
        + (IF a.creatorHistoryAnalysis.analyzed THEN 10 ELSE 0))

\* f.severity === 'high' || f.severity === 'critical'
HighOrCritical(findings) == { f \in findings : f.severity \in { "high", "critical" } }

\* the elements of a sequence
Elements(seq) == { seq[i] : i \in 1..Len(seq) }

\* compileVulnerabilities(analyses): the type and severity of every entry
compileVulnerabilities(an) ==
    (IF detectScamKeywords(an.contractInfo.name, an.contractInfo.symbol)
     THEN { Finding("explicit_scam_warning", "critical") } ELSE {})
    \cup { Finding(p.type, IF p.score >= 20 THEN "critical" ELSE "high") :
             p \in Elements(detectSuspiciousPatterns(an.contractInfo)) }
    \cup { Finding(f.type, "medium") :
             f \in Elements(detectAPINotFound(an.tokenSnifferResult, an.goplusResult,
                                              an.contractInfo)) }
    \cup an.codeAnalysis.vulnerabilities
    \cup HighOrCritical(an.ownershipAnalysis.findings)
    \cup HighOrCritical(an.liquidityAnalysis.findings)
    \cup HighOrCritical(an.behaviorAnalysis.findings)
    \cup HighOrCritical(an.tokenSnifferRisk.findings)
    \cup HighOrCritical(an.goplusRisk.findings)
    \cup HighOrCritical(an.creatorHistoryAnalysis.findings)
    \cup (IF an.holderAnalysis.findings # {} /\ an.holderAnalysis.score > 15
          THEN { Finding("holder_concentration", "high") }
          ELSE IF an.holderAnalysis.findings # {} /\ an.holderAnalysis.score > 5
          THEN { Finding("holder_concentration", "medium") }
          ELSE {})
    \cup (IF an.creatorHoldingAnalysis.findings # {} /\ an.creatorHoldingAnalysis.score > 20
          THEN { Finding("creator_holding", "critical") }
          ELSE IF an.creatorHoldingAnalysis.findings # {}
                  /\ an.creatorHoldingAnalysis.score > 10
          THEN { Finding("creator_holding", "high") }
          ELSE {})

\* vulns.some(v => v.type === type)
SomeOfType(vulns, type) == \E v \in vulns : v.type = type

\* compileSecurityChecks(analyses).  A field of analyses that the caller did
\* not pass is undefined there, which the record marks with present = FALSE.
compileSecurityChecks(a) ==
    [ownership_renounced |-> a.ownershipAnalysis.isRenounced,
     liquidity_locked |-> a.liquidityAnalysis.present
                            /\ (a.liquidityAnalysis.lpLocked \/ a.liquidityAnalysis.lpBurned),
     source_verified |-> a.contractInfo.present /\ a.contractInfo.verified,
     proxy_contract |-> a.contractInfo.present /\ a.contractInfo.isProxy,
     pausable |-> SomeOfType(a.codeAnalysis.vulnerabilities, "pausable"),
     blacklist_function |-> SomeOfType(a.codeAnalysis.vulnerabilities, "honeypot"),
     mint_function |-> SomeOfType(a.codeAnalysis.vulnerabilities, "hiddenMint"),
     high_tax |-> SomeOfType(a.codeAnalysis.vulnerabilities, "highTax"),
     max_tx_limit |-> SomeOfType(a.codeAnalysis.vulnerabilities, "maxTransaction"),
     self_destruct |-> SomeOfType(a.codeAnalysis.vulnerabilities, "selfDestruct"),
     honeypot_risk |-> SomeOfType(a.codeAnalysis.vulnerabilities, "honeypot"),
     centralized_ownership |-> a.ownershipAnalysis.isCentralized]

(***************************************************************************)
(* src/src/services/token-sniffer.js : TokenSnifferClient                  *)
(***************************************************************************)

\* TokenSnifferClient.calculateRisk(snifferResult): score and findings
TokenSnifferCalculateRisk(r) ==
    IF r.kind # "checked"
    THEN [score |-> 0, findings |-> {}]
    ELSE IF ~r.in_database
    THEN [score |-> 0, findings |-> {}]
    ELSE [score |->
            (IF r.scam THEN 25 ELSE 0)
          + (IF r.score > 70 THEN 20 ELSE IF r.score > 50 THEN 10 ELSE 0)
          + (IF r.warnings > 0 THEN Min(r.warnings * 3, 15) ELSE 0)
          + (IF r.exploits > 0 THEN 30 ELSE 0)
          + (IF r.is_honeypot THEN 25 ELSE 0)
          + (IF r.hidden_owner THEN 15 ELSE 0),
          findings |->
            (IF r.scam THEN { Finding("scam_database_flagged", "critical") } ELSE {})
            \cup (IF r.score > 70 THEN { Finding("high_scam_score", "high") }
                  ELSE IF r.score > 50 THEN { Finding("moderate_scam_score", "medium") }
                  ELSE {})
            \cup (IF r.warnings > 0 THEN { Finding("token_sniffer_warnings", "medium") }
                  ELSE {})
            \cup (IF r.exploits > 0 THEN { Finding("known_exploits", "critical") } ELSE {})
            \cup (IF r.is_honeypot THEN { Finding("honeypot_token_sniffer", "critical") }
                  ELSE {})
            \cup (IF r.hidden_owner THEN { Finding("hidden_owner_token_sniffer", "high") }
                  ELSE {})]

(***************************************************************************)
(* src/README.md:378-762 : GoPlusClient                                    *)
(***************************************************************************)
GoPlusFlags ==
    { "is_honeypot", "honeypot_with_same_creator", "is_open_source", "is_proxy",
      "can_take_back_ownership", "owner_change_balance", "hidden_owner",
      "cannot_sell_all", "trading_cooldown", "is_blacklisted", "selfdestruct",
      "external_call", "transfer_pausable", "is_airdrop_scam" }

\* the finding GoPlusClient.calculateRisk pushes for a flag that is set
GoPlusFlagFindings ==
    [ is_honeypot |-> Finding("honeypot_detected", "critical"),
      cannot_sell_all |-> Finding("cannot_sell_all", "critical"),
      selfdestruct |-> Finding("selfdestruct_goplus", "critical"),
      hidden_owner |-> Finding("hidden_owner_goplus", "high"),
      can_take_back_ownership |-> Finding("ownership_takeback", "high"),
      owner_change_balance |-> Finding("owner_change_balance", "high"),
      transfer_pausable |-> Finding("transfer_pausable_goplus", "medium"),
      trading_cooldown |-> Finding("trading_cooldown_goplus", "medium"),
      is_blacklisted |-> Finding("blacklist_goplus", "medium"),
      external_call |-> Finding("external_call_risk", "medium"),
      honeypot_with_same_creator |-> Finding("creator_honeypot_history", "high"),
      is_airdrop_scam |-> Finding("airdrop_scam", "critical") ]

\* GoPlusClient.calculateRisk(goplusResult).findings of a checked result
GoPlusFindings(g) ==
    { GoPlusFlagFindings[f] : f \in g.flags \cap DOMAIN GoPlusFlagFindings }
    \cup (IF g.buy_tax > 10 THEN { Finding("high_buy_tax_goplus", "high") } ELSE {})
    \cup (IF g.sell_tax > 10 THEN { Finding("high_sell_tax_goplus", "high") } ELSE {})
    \cup (IF "is_proxy" \in g.flags /\ "is_open_source" \notin g.flags
          THEN { Finding("proxy_not_verified", "medium") } ELSE {})

\* GoPlusClient.calculateRisk(goplusResult): score and findings
GoPlusCalculateRisk(g) ==
    IF g.kind # "checked"
    THEN [score |-> 0, findings |-> {}]
    ELSE [findings |-> GoPlusFindings(g),
          score |->
            (IF "is_honeypot" \in g.flags THEN 30 ELSE 0)
          + (IF "cannot_sell_all" \in g.flags THEN 25 ELSE 0)
          + (IF "selfdestruct" \in g.flags THEN 20 ELSE 0)
          + (IF "hidden_owner" \in g.flags THEN 15 ELSE 0)
          + (IF "can_take_back_ownership" \in g.flags THEN 15 ELSE 0)
          + (IF "owner_change_balance" \in g.flags THEN 15 ELSE 0)
          + (IF g.buy_tax > 10 THEN 10 ELSE 0)
          + (IF g.sell_tax > 10 THEN 10 ELSE 0)
          + (IF "transfer_pausable" \in g.flags THEN 8 ELSE 0)
          + (IF "trading_cooldown" \in g.flags THEN 5 ELSE 0)
          + (IF "is_blacklisted" \in g.flags THEN 7 ELSE 0)
          + (IF "external_call" \in g.flags THEN 5 ELSE 0)
          + (IF "honeypot_with_same_creator" \in g.flags THEN 20 ELSE 0)
          + (IF "is_airdrop_scam" \in g.flags THEN 25 ELSE 0)
          + (IF "is_proxy" \in g.flags /\ "is_open_source" \notin g.flags THEN 5 ELSE 0)]

(***************************************************************************)
(* src/src/services/token-sniffer.js:880-1107 : fallback analyzer          *)
(***************************************************************************)
\* a scorer that adds 15 points for a potential_selfdestruct finding
calculateRPCOnlyRiskScore_ScoresSelfdestruct(ci, g, findings) ==
    Min(10
        + (IF "potential_selfdestruct" \in findings THEN 15 ELSE 0)
        + (IF g.kind # "null" /\ "is_honeypot" \in g.flags THEN 40 ELSE 0)
        + (IF g.kind # "null" /\ "hidden_owner" \in g.flags THEN 15 ELSE 0)
        + (IF g.kind # "null" /\ (g.buy_tax > 10 \/ g.sell_tax > 10) THEN 15 ELSE 0)
        + (IF g.kind # "null" /\ "cannot_sell_all" \in g.flags THEN 25 ELSE 0),
        100)

\* calculateRPCOnlyRiskScore(contractInfo, goplusData, bytecodeFindings).score
\* An unchecked GoPlus result has none of the fields read here (flags empty,
\* taxes undefined, and undefined > 10 is false).
calculateRPCOnlyRiskScore(ci, g, findings) ==
    Min(10
        + (IF g.kind # "null" /\ "is_honeypot" \in g.flags THEN 40 ELSE 0)
        + (IF g.kind # "null" /\ "hidden_owner" \in g.flags THEN 15 ELSE 0)
        + (IF g.kind # "null" /\ (g.buy_tax > 10 \/ g.sell_tax > 10) THEN 15 ELSE 0)
        + (IF g.kind # "null" /\ "cannot_sell_all" \in g.flags THEN 25 ELSE 0),
        100)

\* calculateRPCOnlyRiskScore(contractInfo, goplusData, bytecodeFindings)
\* .vulnerabilities
calculateRPCOnlyVulnerabilities(ci, g, findings) ==
    { Finding("unverified_source", "medium") }
    \cup (IF "potential_selfdestruct" \in findings
          THEN { Finding("potential_selfdestruct", "low") } ELSE {})
    \cup (IF "delegatecall" \in findings
          THEN { Finding("proxy_pattern", "info") } ELSE {})
    \cup (IF "erc20_standard" \in findings
          THEN { Finding("erc20_standard", "info") } ELSE {})
    \cup (IF g.kind # "null" /\ "is_honeypot" \in g.flags
          THEN { Finding("honeypot", "critical") } ELSE {})
    \cup (IF g.kind # "null" /\ "hidden_owner" \in g.flags
          THEN { Finding("hidden_owner", "high") } ELSE {})
    \cup (IF g.kind # "null" /\ (g.buy_tax > 10 \/ g.sell_tax > 10)
          THEN { Finding("high_tax", "medium") } ELSE {})
    \cup (IF g.kind # "null" /\ "cannot_sell_all" \in g.flags
          THEN { Finding("cannot_sell", "critical") } ELSE {})

(***************************************************************************)
(* src/src/analyzers/code-analyzer.js                                      *)
(***************************************************************************)
RED_FLAG_PATTERNS ==
    [ hiddenMint |-> 15, selfDestruct |-> 15, honeypot |-> 15, delegatecall |-> 15,
      pausable |-> 10, modifiableTax |-> 10, highTax |-> 10,
      ownership |-> 5, maxTransaction |-> 5, maxWallet |-> 5, antiBot |-> 5,
      cooldown |-> 5, scamKeywordsInCode |-> 30 ]

SAFE_PATTERNS ==
    [ renounceOwnership |-> -10, timelockPresent |-> -10, audited |-> -5,
      openZeppelin |-> -5 ]

\* RED_FLAG_PATTERNS[key].severity
RED_FLAG_SEVERITY ==
    [ hiddenMint |-> "critical", selfDestruct |-> "critical", honeypot |-> "critical",
      delegatecall |-> "critical", pausable |-> "high", modifiableTax |-> "high",
      highTax |-> "high", ownership |-> "medium", maxTransaction |-> "medium",
      maxWallet |-> "medium", antiBot |-> "medium", cooldown |-> "medium",
      scamKeywordsInCode |-> "critical" ]

RECURSIVE SumOver(_, _)
SumOver(table, keys) ==
    IF keys = {} THEN 0
    ELSE LET k == CHOOSE x \in keys : TRUE
         IN  table[k] + SumOver(table, keys \ {k})

\* The red-flag keys that analyzeSourceCode reports for a source text whose
\* regular expressions match the keys in src.red: hiddenMint only with a
\* restricting modifier in the text
ReportedRedFlags(src) ==
    { k \in src.red : k = "hiddenMint" => src.restrictedModifier }

\* analyzeSourceCode(sourceCode, isProxy)
analyzeSourceCode(src, isProxy) ==
    IF ~src.nonEmpty
    THEN [analyzed |-> FALSE, vulnerabilities |-> {}, score |-> 0]
    ELSE LET found == ReportedRedFlags(src)
             full  == IF isProxy THEN found \ {"delegatecall"} ELSE found
         IN  [analyzed |-> TRUE,
              vulnerabilities |->
                 { Finding(k, IF k = "delegatecall" /\ isProxy THEN "low"
                              ELSE RED_FLAG_SEVERITY[k]) : k \in found },
              score |-> SumOver(RED_FLAG_PATTERNS, full)
                        + (IF isProxy /\ "delegatecall" \in found THEN 2 ELSE 0)
                        + SumOver(SAFE_PATTERNS, src.safe)]

\* isProxyContract(sourceCode)
isProxyContract(src) == src.nonEmpty /\ src.proxyPattern

(***************************************************************************)
(* src/PRIORITY1_IMPLEMENTATION_SUMMARY.md:400-693 : behavioral analyzer   *)
(***************************************************************************)
\* analyzeContractAge(contractInfo).score
analyzeContractAge(ci) ==
    IF ci.ageInDays < 1 THEN 10
    ELSE IF ci.ageInDays < 7 THEN 5
    ELSE IF ci.ageInDays < 30 THEN 3
    ELSE IF ci.ageInDays > 365 THEN -5
    ELSE 0


\* analyzeContractAge(contractInfo).findings
analyzeContractAgeFindings(ci) ==
    IF ci.ageInDays < 1 THEN { Finding("very_new_contract", "high") }
    ELSE IF ci.ageInDays < 7 THEN { Finding("new_contract", "medium") }
    ELSE IF ci.ageInDays < 30 THEN { Finding("recent_contract", "medium") }
    ELSE IF ci.ageInDays > 365 THEN { Finding("established_contract", "safe") }
    ELSE {}


(***************************************************************************)
(* Inputs of the model: requests and what the upstream services answer     *)
(***************************************************************************)
USDC_ADDRESS  == <<"0","x","A","0","b","8">>   \* 0xA0b86991..., checksum case
OTHER_ADDRESS == <<"0","x","1","2","3","4">>
Addresses  == { USDC_ADDRESS, OTHER_ADDRESS }
ScanDepths == { "quick", "deep" }

\* what name() and symbol() of the contract return (rpc.js getTokenInfo)
DefaultTokenInfo ==
    [name |-> <<"U","n","k","n","o","w","n">>, symbol |-> <<"U","N","K","N","O","W","N">>]
TokenInfos ==
    { DefaultTokenInfo,
      [name |-> <<"U","S","D"," ","C","o","i","n">>,     symbol |-> <<"U","S","D","C">>],
      [name |-> <<"U","S","D"," ","T","o","k","e","n">>, symbol |-> <<"S","C","A","M">>] }

\* source texts, described by what the scanners' regular expressions match
NoSource ==
    [nonEmpty |-> FALSE, red |-> {}, restrictedModifier |-> FALSE, safe |-> {},
     proxyPattern |-> FALSE]
SourceTexts ==
    { [nonEmpty |-> TRUE, red |-> DOMAIN RED_FLAG_PATTERNS, restrictedModifier |-> TRUE,
       safe |-> {}, proxyPattern |-> FALSE],
      [nonEmpty |-> TRUE, red |-> {"hiddenMint", "delegatecall"},
       restrictedModifier |-> FALSE, safe |-> DOMAIN SAFE_PATTERNS, proxyPattern |-> TRUE] }

AgeValues == { 40, 400, 800 }      \* days since the creation block
TxValues  == { 0, 100 }               \* nonce-derived transaction counts
BlockNumbers == { 0, 288000, 2880000 } \* provider.getBlockNumber()

NoContractInfo ==
    [address |-> << >>, verified |-> FALSE, sourceCode |-> NoSource,
     creator |-> FALSE, creationTxHash |-> FALSE, ageInDays |-> 0,
     transactionCount |-> 0, isProxy |-> FALSE, fallbackMode |-> FALSE]

\* EtherscanClient.getContractInfo(address), token-sniffer.js:489-533, when no
\* request throws: src is the SourceCode field, creation whether
\* getcontractcreation returned a row
EtherscanContractInfo(address, src, creation, age, tx) ==
    [address |-> address,
     verified |-> src.nonEmpty,
     sourceCode |-> src,
     creator |-> creation,
     creationTxHash |-> creation,
     ageInDays |-> IF creation THEN age ELSE 0,
     transactionCount |-> tx,
     isProxy |-> FALSE,
     fallbackMode |-> FALSE]

\* analyzeContractViaRPC(rpcClient, address), token-sniffer.js:888-942, when
\* no chain read throws; code.includes('delegatecall') is false for hex text
analyzeContractViaRPC(address, currentBlock, txCount) ==
    [address |-> address,
     verified |-> FALSE,
     sourceCode |-> NoSource,
     creator |-> FALSE,
     creationTxHash |-> FALSE,
     ageInDays |-> Max((currentBlock * 12) \div (60 * 60 * 24), 1),
     transactionCount |-> txCount,
     isProxy |-> FALSE,
     fallbackMode |-> TRUE]

DefaultCodeAnalysis == [analyzed |-> FALSE, vulnerabilities |-> {}, score |-> 0]
DefaultOwnership ==
    [hasOwner |-> FALSE, isRenounced |-> FALSE, isCentralized |-> FALSE,
     score |-> 0, error |-> FALSE, findings |-> {}]
DefaultLiquidity ==
    [present |-> TRUE, hasLiquidity |-> FALSE, lpLocked |-> FALSE, lpBurned |-> FALSE,
     score |-> 0, error |-> FALSE, findings |-> {}]
DefaultBehavior == [score |-> 0, error |-> FALSE, findings |-> {}]
DefaultExternal == [analyzed |-> FALSE, score |-> 0, findings |-> {}]

\* analyzeOwnership(rpcClient, etherscanClient, contractAddress),
\* code-analyzer.js:386-529, by what the chain reads return
OwnershipOutcomes == { "eoa", "error" }
analyzeOwnership(address, outcome) ==
    CASE outcome = "renounced" ->
           [hasOwner |-> TRUE, isRenounced |-> TRUE, isCentralized |-> FALSE,
            score |-> -10, error |-> FALSE,
            findings |-> { Finding("ownership_renounced", "safe") }]
      [] outcome = "eoa" ->
           [hasOwner |-> TRUE, isRenounced |-> FALSE, isCentralized |-> TRUE,
            score |-> IF allowsCentralizedOwnership(address) THEN 2 ELSE 10,
            error |-> FALSE,
            findings |-> IF allowsCentralizedOwnership(address)
                         THEN { Finding("centralized_ownership_expected", "low") }
                         ELSE { Finding("centralized_ownership", "high") }]
      \* code-analyzer.js:518-526 : the catch pushes analysis_error, info
      [] outcome = "error" ->
           [hasOwner |-> FALSE, isRenounced |-> FALSE, isCentralized |-> TRUE,
            score |-> 0, error |-> TRUE,
            findings |-> { Finding("analysis_error", "info") }]

\* analyzeLiquidity(...), unnamed/part_002:37-136, by what it finds
LiquidityOutcomes == { "locked", "creator_holds" }
analyzeLiquidity(outcome) ==
    CASE outcome = "locked" ->
           [present |-> TRUE, hasLiquidity |-> TRUE, lpLocked |-> TRUE, lpBurned |-> FALSE,
            score |-> -10, error |-> FALSE,
            findings |-> { Finding("liquidity_locked", "safe") }]
      [] outcome = "creator_holds" ->
           [present |-> TRUE, hasLiquidity |-> TRUE, lpLocked |-> FALSE, lpBurned |-> FALSE,
            score |-> 15, error |-> FALSE,
            findings |-> { Finding("liquidity_not_locked", "high") }]
      [] outcome = "error" ->
           [present |-> TRUE, hasLiquidity |-> FALSE, lpLocked |-> FALSE, lpBurned |-> FALSE,
            score |-> 0, error |-> TRUE,
            findings |-> { Finding("analysis_error", "info") }]

\* analyzeBehavior(etherscanClient, contractAddress, contractInfo): the scores
\* analyzeActivity and detectSuspiciousPatterns derive from the transactions
BehaviorObservations ==
    { [activity |-> 0, suspicious |-> 0, findings |-> {}],
      [activity |-> 3, suspicious |-> 26,
       findings |-> { Finding("low_activity", "medium"),
                      Finding("tax_modifications", "medium"),
                      Finding("blacklist_usage", "medium"),
                      Finding("pause_events", "medium"),
                      Finding("large_transfers", "medium"),
                      Finding("multiple_ownership_transfers", "high"),
                      Finding("contract_upgrades", "high") }] }
analyzeBehavior(ci, obs) ==
    [score |-> analyzeContractAge(ci) + obs.activity + obs.suspicious, error |-> FALSE,
     findings |-> analyzeContractAgeFindings(ci) \cup obs.findings]

\* TokenSnifferClient.checkToken(address, chain), token-sniffer.js:33-108
TokenSnifferNull ==
    [kind |-> "null", in_database |-> FALSE, scam |-> FALSE, score |-> 0,
     warnings |-> 0, exploits |-> 0, is_honeypot |-> FALSE, hidden_owner |-> FALSE]
TokenSnifferUnchecked == [TokenSnifferNull EXCEPT !.kind = "unchecked"]
TokenSnifferResults ==
    { TokenSnifferNull,                 \* chain not supported
      TokenSnifferUnchecked,            \* 401, 429, network error, timeout
      [kind |-> "checked", in_database |-> TRUE, scam |-> TRUE, score |-> 90,
       warnings |-> 6, exploits |-> 1, is_honeypot |-> TRUE, hidden_owner |-> TRUE] }

\* GoPlusClient.checkTokenSecurity(address, chain), README.md:410-459
GoPlusNull      == [kind |-> "null", flags |-> {}, buy_tax |-> 0, sell_tax |-> 0]
GoPlusUnchecked == [kind |-> "unchecked", flags |-> {}, buy_tax |-> 0, sell_tax |-> 0]
GoPlusResults ==
    { GoPlusNull,                       \* chain not supported
      GoPlusUnchecked,                  \* 429, error, timeout, token not found
      [kind |-> "checked", flags |-> GoPlusFlags \ {"is_open_source"},
       buy_tax |-> 99, sell_tax |-> 99] }

\* analyzeCreatorHistory: score of calculateCreatorRiskScore
CreatorHistoryOutcomes ==
    { [analyzed |-> TRUE, score |-> 0, findings |-> {}],
      [analyzed |-> TRUE, score |-> 72,
       findings |-> { Finding("serial_deployer", "high"),
                      Finding("multiple_abandoned_contracts", "critical"),
                      Finding("rapid_deployment", "high"),
                      Finding("high_abandonment_rate", "high") }] }
\* analyzeHolderConcentration and analyzeCreatorHolding, rpc.js:299-449; their
\* findings are texts
HolderOutcomes ==
    { [analyzed |-> FALSE, score |-> 0,
       findings |-> { "Could not analyze holder concentration" }],
      [analyzed |-> TRUE, score |-> 20,
       findings |-> { "Very few holders detected - High concentration risk" }] }
CreatorHoldingOutcomes ==
    { [analyzed |-> FALSE, score |-> 0, findings |-> {}],
      [analyzed |-> TRUE, score |-> 25,
       findings |-> { "Creator holds most of supply - CRITICAL concentration risk" }] }

\* SourcifyClient.getSourceCode, whitelist.js:206-258: null, or the first
\* .sol file (the empty text when there is none) with verified: true
SourcifyNotQueried == [kind |-> "none", verified |-> FALSE, sourceCode |-> NoSource]
SourcifyNull       == [kind |-> "null", verified |-> FALSE, sourceCode |-> NoSource]
SourcifyVerified(src) == [kind |-> "data", verified |-> TRUE, sourceCode |-> src]

\* unnamed/part_002:209-270, analyzeLiquidityPair.  Addresses are abbreviated
\* to "0x" and four hex digits that keep the letter case of the original.
ZERO_ADDRESS == <<"0","x","0","0","0","0">>
BURN_ADDRESS == <<"0","x","d","e","a","d">>
\* unnamed/part_002:27-32 : Unicrypt, PinkLock BSC, PinkLock ETH, burn address
KNOWN_LOCKERS ==
    << <<"0","x","b","2","1","4">>,      \* 0x663a5c22...9db214
       <<"0","x","7","1","B","5">>,      \* 0x71B5759d...
       <<"0","x","1","B","B","E">>,      \* 0x40799357...6eE1BBE
       BURN_ADDRESS >>
\* the deployer of the token, who adds the liquidity
LP_CREATOR == <<"0","x","c","0","d","e">>

\* KNOWN_LOCKERS.includes(address)
KnownLockersIncludes(address) ==
    \E i \in 1..Len(KNOWN_LOCKERS) : KNOWN_LOCKERS[i] = address

\* the LP-token transfers the explorer lists for the pair
MaxTransfers == 2
LpSenders == { ZERO_ADDRESS, LP_CREATOR }
LpReceivers == Elements(KNOWN_LOCKERS) \cup { ZERO_ADDRESS, LP_CREATOR }
LpValues == { 1, 50 }
LpSupplies == { 200 }

\* the keys of the balances map: lower-cased receivers and non-zero senders
BalanceKeys(transfers) ==
    { toLowerCase(transfers[i].to) : i \in 1..Len(transfers) }
    \cup { toLowerCase(transfers[i].from) :
             i \in { j \in 1..Len(transfers) :
                       toLowerCase(transfers[j].from) # ZERO_ADDRESS } }

\* balances.get(address) after the loop over lpTransfers
RECURSIVE BalanceOf(_, _)
BalanceOf(transfers, address) ==
    IF transfers = << >>
    THEN 0
    ELSE LET t == Head(transfers)
         IN  (IF toLowerCase(t.to) = address THEN t.value ELSE 0)
             - (IF toLowerCase(t.from) = address /\ toLowerCase(t.from) # ZERO_ADDRESS
                THEN t.value ELSE 0)
             + BalanceOf(Tail(transfers), address)

\* a holder is counted with balance > 0 and percentage >= 1, where
\* percentage = Number((balance * 10000n) / totalSupply) / 100
CountedHolders(transfers, totalSupply) ==
    { a \in BalanceKeys(transfers) :
        /\ BalanceOf(transfers, a) > 0
        /\ (BalanceOf(transfers, a) * 10000) \div totalSupply >= 100 }

\* unnamed/part_002:250 : KNOWN_LOCKERS.includes(address), address being a key
\* of the balances map
IsKnownLocker(address) == KnownLockersIncludes(address)

\* unnamed/part_002:244 : address === burnAddress || address === '0x00...00'
IsBurned(address) == address = BURN_ADDRESS \/ address = ZERO_ADDRESS

\* analyzeLiquidityPair(rpcClient, etherscanClient, pairAddress, creatorAddress)
analyzeLiquidityPair(transfers, totalSupply) ==
    LET counted == CountedHolders(transfers, totalSupply)
    IN  [locked |-> \E a \in counted : IsBurned(a) \/ IsKnownLocker(a),
         burned |-> \E a \in counted : IsBurned(a),
         holders |-> { [address |-> a, isLocker |-> IsKnownLocker(a),
                        isBurned |-> IsBurned(a)] : a \in counted }]

NoPairAnalysis == [locked |-> FALSE, burned |-> FALSE, holders |-> {}]
NoPairCall ==
    [st |-> "listing", transfers |-> << >>, totalSupply |-> 200,
     analysis |-> NoPairAnalysis]

\* token-sniffer.js:580-663, analyzeCreatorHistory
\* the number of creation transactions the explorer lists for the creator
MaxDeployed == 21
\* contractCreations.slice(0, 20)
InspectLimit == 20
\* what the explorer and the node report of one deployed contract
DeployedAges == { 3, 20, 45 }
DeployedTxCounts == { 2, 10 }
DaysSinceLastTx == { 1, 40 }

\* token-sniffer.js:672-713, analyzeDeployedContract: the field abandoned; a
\* failure of the node or of the explorer is caught and leaves it false
analyzeDeployedContract(ageDays, txCount, daysSinceLastTx, failed) ==
    [age_days |-> ageDays,
     abandoned |-> /\ ~failed
                   /\ ageDays > 7
                   /\ (txCount < 10 \/ daysSinceLastTx > 30)]

\* detectSuspiciousPatterns without the test of the number of analysed
\* contracts in pattern 4
detectCreatorPatterns_WithoutCountGuard(a) ==
    \/ a.total_contracts_deployed >= 10
    \/ a.abandoned_contracts >= 3
    \/ a.recent_deployments >= 5
    \/ /\ a.contracts > 0
       /\ 2 * a.abandoned_contracts > a.contracts

\* token-sniffer.js:719-752, detectSuspiciousPatterns: the value it leaves in
\* analysis.suspicious_pattern (false before the call); contracts is
\* analysis.contracts.length
detectCreatorPatterns(a) ==
    \/ a.total_contracts_deployed >= 10
    \/ a.abandoned_contracts >= 3
    \/ a.recent_deployments >= 5
    \/ /\ a.contracts > 0
       /\ 2 * a.abandoned_contracts > a.contracts
       /\ a.contracts >= 5

NoCreatorCall ==
    [st |-> "start", analyzed |-> TRUE, total_contracts_deployed |-> 0,
     inspected |-> 0, contracts |-> 0, abandoned_contracts |-> 0,
     recent_deployments |-> 0, suspicious_pattern |-> FALSE]

\* unnamed/part_000:6-53, rateLimiter
WINDOW_MS == 60000
MAX_REQUESTS == 30
\* the values of the headers x-forwarded-for / x-real-ip, or 'unknown'
IPs == { "198.51.100.7", "unknown" }
\* the values of Date.now() at which requests arrive: the start of a
\* window, its last millisecond, and the millisecond after it
LimiterClock == << 0, WINDOW_MS, WINDOW_MS + 1 >>
\* a client stops sending once MaxOverflow of its requests were rejected in
\* a row
MaxOverflow == 1

\* requestCounts.get(ip) of an address that has no entry
NoLimitData == [present |-> FALSE, count |-> 0, windowStart |-> 0]

\* the window test with >= in place of >
WindowExpired_AtWindowEnd(data, t) == t - data.windowStart >= WINDOW_MS

\* unnamed/part_000:17, 25 : now - data.windowStart > WINDOW_MS
WindowExpired(data, t) == t - data.windowStart > WINDOW_MS

\* unnamed/part_000:16-20 : the entries whose window is over are deleted
CleanedCounts(counts, t) ==
    [k \in IPs |-> IF counts[k].present /\ WindowExpired(counts[k], t)
                   THEN NoLimitData ELSE counts[k]]

\* unnamed/part_000:23-35 : the entry of ip after the request was counted
CountedRequest(counts, ip, t) ==
    LET data == CleanedCounts(counts, t)[ip]
        current == IF ~data.present \/ WindowExpired(data, t)
                   THEN [present |-> TRUE, count |-> 0, windowStart |-> t]
                   ELSE data
    IN  [current EXCEPT !.count = @ + 1]

\* unnamed/part_000:38-51 : 429, or next()
LimiterStatus(data) == IF data.count > MAX_REQUESTS THEN "429" ELSE "next"

\* the window of a client as an observer sees it: the time of the request
\* that began it (-1 before the first request) and the number of requests
\* of the window that reached a handler
NoWindow == [start |-> -1, forwarded |-> 0]
NoLimiterTraffic ==
    [now |-> 0,
     requestCounts |-> [k \in IPs |-> NoLimitData],
     window |-> [k \in IPs |-> NoWindow],
     last |-> [ip |-> "unknown", status |-> "none"]]

NoRequest == [contract_address |-> << >>, scan_depth |-> "quick"]
NoResult ==
    [status |-> "none", risk_score |-> 0, risk_level |-> "low", confidence |-> 0,
     verified |-> FALSE, is_proxy |-> FALSE, vulnerabilities |-> {},
     security_checks |->
        [ownership_renounced |-> FALSE, liquidity_locked |-> FALSE,
         source_verified |-> FALSE, proxy_contract |-> FALSE, pausable |-> FALSE,
         blacklist_function |-> FALSE, mint_function |-> FALSE, high_tax |-> FALSE,
         max_tx_limit |-> FALSE, self_destruct |-> FALSE, honeypot_risk |-> FALSE,
         centralized_ownership |-> FALSE]]


(***************************************************************************)
(* The cache (CacheDB, src/src/services/token-sniffer.js:1121-1306) and    *)
(* the requests of the HTTP server (src/src/agent.js:433-542)              *)
(***************************************************************************)
\* CacheDB.get: const maxAge = 60 * 60 * 1000
maxAge == 3600000

\* the clock is not advanced beyond MaxNow
MaxNow == 3600001

\* at most MaxCalls requests are in flight, and at most MaxCalls pipelines
\* of one batch
MaxCalls == 2

\* agent.js:483 : body.contracts.length > 10
BatchLimit == 10

\* amounts by which Date.now() advances between two steps
ClockSteps == { maxAge, maxAge + 1 }

\* the chain of every request modelled
ETHEREUM == <<"e","t","h","e","r","e","u","m">>

\* another member of ScanInputSchema's chain enum
POLYGON == <<"p","o","l","y","g","o","n">>

HexDigits ==
    { "0","1","2","3","4","5","6","7","8","9",
      "a","b","c","d","e","f","A","B","C","D","E","F" }

\* ScanInputSchema: /^0x[a-fA-F0-9]{40}$/, for addresses abbreviated to "0x"
\* and four hex digits
isValidAddress(a) ==
    /\ Len(a) = 6
    /\ a[1] = "0" /\ a[2] = "x"
    /\ \A i \in 3..6 : a[i] \in HexDigits

USDC_LOWER == toLowerCase(USDC_ADDRESS)
INVALID_ADDRESS == <<"0","x","Z","Z">>

\* values returned by analyzeContract and by CacheDB.get.  is_honeypot is
\* external_checks.goplus.is_honeypot, undefined when GoPlus was not checked.
NullValue == [kind |-> "null", risk_score |-> 0, is_honeypot |-> "absent"]
RiskRecords ==
    { [kind |-> "record", risk_score |-> 10, is_honeypot |-> "undefined"],
      [kind |-> "record", risk_score |-> 95, is_honeypot |-> "true"] }
\* { error: 'Analysis failed', ... } of agent.js:377-382 and 505-510
AnalysisFailedValue == [kind |-> "error", risk_score |-> 0, is_honeypot |-> "absent"]
\* { error: 'Invalid input', ... } of agent.js:450-457
InvalidInputValue == [kind |-> "invalid", risk_score |-> 0, is_honeypot |-> "absent"]

\* JSON.stringify drops the properties whose value is undefined
JSONStringify(v) ==
    [v EXCEPT !.is_honeypot = IF @ = "undefined" THEN "absent" ELSE @]
\* JSON.parse rebuilds the object that the text describes
JSONParse(text) == text

\* a SELECT whose WHERE clause leaves out scan_depth
RowsOf_IgnoresDepth(t, address, chain, scanDepth) ==
    { r \in t : /\ r.contract_address = toLowerCase(address)
                /\ r.chain = toLowerCase(chain) }

\* the rows of scan_results with the key of (address, chain, scanDepth)
RowsOf(t, address, chain, scanDepth) ==
    { r \in t : /\ r.contract_address = toLowerCase(address)
                /\ r.chain = toLowerCase(chain)
                /\ r.scan_depth = scanDepth }

\* CacheDB.set with plain INSERT, no ON CONFLICT clause
CacheSet_InsertOnly(t, address, chain, scanDepth, value, at) ==
    t \cup { [contract_address |-> toLowerCase(address),
              chain |-> toLowerCase(chain),
              scan_depth |-> scanDepth,
              result |-> JSONStringify(value),
              created_at |-> at] }

\* CacheDB.set(contractAddress, chain, scanDepth, result) at time at:
\* INSERT ... ON CONFLICT(contract_address, chain, scan_depth) DO UPDATE
CacheSet(t, address, chain, scanDepth, value, at) ==
    (t \ RowsOf(t, address, chain, scanDepth))
    \cup { [contract_address |-> toLowerCase(address),
            chain |-> toLowerCase(chain),
            scan_depth |-> scanDepth,
            result |-> JSONStringify(value),
            created_at |-> at] }

\* an end of analyzeContract that stores whatever it returns
RowsAfterRun_StoresFailures(t, address, scanDepth, o, at) ==
    CacheSet(t, address, ETHEREUM, scanDepth, o, at)

\* agent.js:367-383 : the table when analyzeContract returns o at time at:
\* cache.set stores the result that the try block built, the catch block
\* stores nothing
RowsAfterRun(t, address, scanDepth, o, at) ==
    IF o.kind = "record"
    THEN CacheSet(t, address, ETHEREUM, scanDepth, o, at)
    ELSE t

\* a DELETE whose WHERE clause names the address only
CacheDelete_WholeAddress(t, address, chain, scanDepth) ==
    { r \in t : r.contract_address # toLowerCase(address) }

\* CacheDB.delete(contractAddress, chain, scanDepth)
CacheDelete(t, address, chain, scanDepth) == t \ RowsOf(t, address, chain, scanDepth)

\* an expiry test that also rejects an entry of age exactly maxAge
CacheExpired_AtMaxAge(row, at) == at - row.created_at >= maxAge

\* CacheDB.get: age > maxAge
CacheExpired(row, at) == at - row.created_at > maxAge

\* the value CacheDB.get(contractAddress, chain, scanDepth) returns at time at
CacheGet(t, address, chain, scanDepth, at) ==
    IF RowsOf(t, address, chain, scanDepth) = {}
    THEN NullValue
    ELSE LET row == CHOOSE r \in RowsOf(t, address, chain, scanDepth) : TRUE
         IN  IF CacheExpired(row, at) THEN NullValue ELSE JSONParse(row.result)

\* a read that removes the entry it finds, expired or not
CacheAfterGet_AlwaysDeletes(t, address, chain, scanDepth, at) ==
    CacheDelete(t, address, chain, scanDepth)

\* the table after CacheDB.get(contractAddress, chain, scanDepth) at time at
CacheAfterGet(t, address, chain, scanDepth, at) ==
    IF \E r \in RowsOf(t, address, chain, scanDepth) : CacheExpired(r, at)
    THEN CacheDelete(t, address, chain, scanDepth)
    ELSE t

\* CacheDB.cleanOldEntries at time at: DELETE ... WHERE created_at < cutoff
cleanOldEntries(t, at) == { r \in t : ~(r.created_at < at - maxAge) }

\* one invocation of analyzeContract by POST /analyze; issuedAt is the time
\* of the request while its pipeline is running, evicted whether its cache.get
\* found an expired entry and deleted it
NoCall ==
    [st |-> "free", contract_address |-> << >>, scan_depth |-> "quick",
     issuedAt |-> 0, out |-> NullValue, fromCache |-> FALSE, evicted |-> FALSE]

\* the request bodies of POST /analyze
AnalyzeAddresses == { USDC_ADDRESS, USDC_LOWER, INVALID_ADDRESS }
AnalyzeDepths == { "quick", "deep" }

\* the POST /analyze-batch request
NoBatch ==
    [st |-> "none", contracts |-> << >>, scan_depth |-> "quick", items |-> << >>,
     status |-> 0, error |-> "", successful |-> 0, failed |-> 0, results |-> << >>]

\* the contracts arrays of POST /analyze-batch
BatchBodies ==
    { << >>,
      << USDC_ADDRESS, INVALID_ADDRESS >>,
      << USDC_ADDRESS, USDC_LOWER >>,
      [i \in 1..BatchLimit |-> IF i = 1 THEN USDC_ADDRESS ELSE INVALID_ADDRESS],
      [i \in 1..(BatchLimit + 1) |-> IF i = 1 THEN USDC_ADDRESS ELSE INVALID_ADDRESS] }

(***************************************************************************)
(* analyzeContract, src/src/agent.js:61-384, one run at a time.  The cache *)
(* lookup of lines 62-69 has missed in every run modelled here.            *)
(***************************************************************************)
Init ==
    /\ pc = "idle"
    /\ req = NoRequest
    /\ trace = << >>
    /\ etherscanError = FALSE
    /\ sourcifyData = SourcifyNotQueried
    /\ contractInfo = NoContractInfo
    /\ usingFallback = FALSE
    /\ codeAnalysis = DefaultCodeAnalysis
    /\ bytecodeFindings = {}
    /\ ownershipAnalysis = DefaultOwnership
    /\ liquidityAnalysis = DefaultLiquidity
    /\ behaviorAnalysis = DefaultBehavior
    /\ tokenInfo = DefaultTokenInfo
    /\ tokenSnifferResult = TokenSnifferNull
    /\ goplusResult = GoPlusNull
    /\ creatorHistoryAnalysis = DefaultExternal
    /\ holderAnalysis = DefaultExternal
    /\ creatorHoldingAnalysis = DefaultExternal
    /\ result = NoResult
    /\ scanned = {}
    /\ rows = {}
    /\ now = 0
    /\ calls = [s \in 1..MaxCalls |-> NoCall]
    /\ batch = NoBatch
    /\ lp = NoPairCall
    /\ hist = NoCreatorCall
    /\ limiter = NoLimiterTraffic

\* the catch block of agent.js:374-383
AnalysisFailed == [NoResult EXCEPT !.status = "error"]

\* agent.js:61-83 : a request enters the pipeline
Request ==
    /\ pc = "idle"
    /\ \E a \in Addresses, d \in ScanDepths :
         req' = [contract_address |-> a, scan_depth |-> d]
    /\ pc' = "TryPrimary"
    /\ UNCHANGED << etherscanError, sourcifyData >>
    /\ UNCHANGED << trace, contractInfo, usingFallback, codeAnalysis, bytecodeFindings,
                    ownershipAnalysis, liquidityAnalysis, behaviorAnalysis, tokenInfo,
                    tokenSnifferResult, goplusResult, creatorHistoryAnalysis,
                    holderAnalysis, creatorHoldingAnalysis, result >>
    /\ UNCHANGED << scanned, serverVars, adapterVars >>

\* agent.js:85-89 : etherscanClient.getContractInfo returns or throws
TryPrimary ==
    /\ pc = "TryPrimary"
    /\ trace' = Append(trace, "TryPrimary")
    /\ \/ \E src \in SourceTexts \cup {NoSource}, creation \in BOOLEAN,
             age \in AgeValues, tx \in TxValues :
            \* without a creation row the age stays 0 whatever the block says
            /\ ~creation => age = CHOOSE a \in AgeValues : TRUE
            /\ contractInfo' =
                 EtherscanContractInfo(req.contract_address, src, creation, age, tx)
            /\ pc' = "code"
            /\ UNCHANGED etherscanError
       \/ /\ pc' = "TryDecentralizedVerification"
          /\ etherscanError' = TRUE
          /\ UNCHANGED contractInfo
    /\ UNCHANGED sourcifyData
    /\ UNCHANGED << req, usingFallback, codeAnalysis, bytecodeFindings,
                    ownershipAnalysis, liquidityAnalysis, behaviorAnalysis, tokenInfo,
                    tokenSnifferResult, goplusResult, creatorHistoryAnalysis,
                    holderAnalysis, creatorHoldingAnalysis, result >>
    /\ UNCHANGED << scanned, serverVars, adapterVars >>

\* what Sourcify may answer for the contract
SourcifyAnswers ==
    { SourcifyNull } \cup { SourcifyVerified(src) : src \in SourceTexts \cup {NoSource} }

\* a match that also demands a non-empty source text
SourcifyMatched_RequiresSource(sd) ==
    sd.kind = "data" /\ sd.verified /\ sd.sourceCode.nonEmpty

\* agent.js:95 : sourcifyData && sourcifyData.verified
SourcifyMatched(sd) == sd.kind = "data" /\ sd.verified

\* agent.js:90-113 : sourcifyClient.getSourceCode returns data or null; verified
\* data is merged with analyzeContractViaRPC, whose chain reads may throw
TryDecentralizedVerification ==
    /\ pc = "TryDecentralizedVerification"
    /\ trace' = Append(trace, "TryDecentralizedVerification")
    /\ UNCHANGED etherscanError
    /\ \E sd \in SourcifyAnswers :
         /\ sourcifyData' = sd
         /\ IF SourcifyMatched(sd)
            THEN \/ \E b \in BlockNumbers, tx \in TxValues :
                      /\ contractInfo' =
                           [analyzeContractViaRPC(req.contract_address, b, tx)
                              EXCEPT !.verified = TRUE,
                                     !.sourceCode = sd.sourceCode,
                                     !.fallbackMode = FALSE]
                      /\ pc' = "code"
                      /\ UNCHANGED result
                 \/ /\ pc' = "failed"
                    /\ result' = AnalysisFailed
                    /\ UNCHANGED contractInfo
            ELSE /\ pc' = "FallbackChainRead"
                 /\ UNCHANGED << contractInfo, result >>
    /\ UNCHANGED << req, usingFallback, codeAnalysis, bytecodeFindings,
                    ownershipAnalysis, liquidityAnalysis, behaviorAnalysis, tokenInfo,
                    tokenSnifferResult, goplusResult, creatorHistoryAnalysis,
                    holderAnalysis, creatorHoldingAnalysis >>
    /\ UNCHANGED << scanned, serverVars, adapterVars >>

\* agent.js:110-112 : analyzeContractViaRPC returns or throws
FallbackChainRead ==
    /\ pc = "FallbackChainRead"
    /\ trace' = Append(trace, "FallbackChainRead")
    /\ \/ \E b \in BlockNumbers, tx \in TxValues :
            /\ contractInfo' = analyzeContractViaRPC(req.contract_address, b, tx)
            /\ usingFallback' = TRUE
            /\ pc' = "code"
            /\ UNCHANGED result
       \/ /\ pc' = "failed"
          /\ result' = AnalysisFailed
          /\ UNCHANGED << contractInfo, usingFallback >>
    /\ UNCHANGED << etherscanError, sourcifyData >>
    /\ UNCHANGED << req, codeAnalysis, bytecodeFindings,
                    ownershipAnalysis, liquidityAnalysis, behaviorAnalysis, tokenInfo,
                    tokenSnifferResult, goplusResult, creatorHistoryAnalysis,
                    holderAnalysis, creatorHoldingAnalysis >>
    /\ UNCHANGED << scanned, serverVars, adapterVars >>


\* analyzeBytecode(bytecode), token-sniffer.js:948-1007: the patterns found in
\* a bytecode with the given counts of 'f4' and 'ff', size and selectors
Bytecodes ==
    { [f4 |-> 0, ff |-> 0, sizeKB |-> 1, erc20 |-> FALSE],
      [f4 |-> 3, ff |-> 5, sizeKB |-> 25, erc20 |-> TRUE] }
BytecodePatterns ==
    { "delegatecall", "potential_selfdestruct", "large_contract", "erc20_standard" }
analyzeBytecode(b) ==
    (IF b.f4 > 2 THEN {"delegatecall"} ELSE {})
    \cup (IF b.ff > 0 /\ b.ff < 10 THEN {"potential_selfdestruct"} ELSE {})
    \cup (IF b.sizeKB > 24 THEN {"large_contract"} ELSE {})
    \cup (IF b.erc20 THEN {"erc20_standard"} ELSE {})

\* a selection that looks at the verified flag only
HasVerifiedSource_VerifiedOnly(ci) == ci.verified

\* agent.js:120 : contractInfo.verified && contractInfo.sourceCode
HasVerifiedSource(ci) == ci.verified /\ ci.sourceCode.nonEmpty

\* agent.js:116-132 : source analysis, or bytecode analysis in fallback mode
CodeStep ==
    /\ pc = "code"
    /\ IF HasVerifiedSource(contractInfo)
       THEN /\ contractInfo' =
                 [contractInfo EXCEPT !.isProxy = isProxyContract(contractInfo.sourceCode)]
            /\ codeAnalysis' =
                 analyzeSourceCode(contractInfo.sourceCode,
                                   isProxyContract(contractInfo.sourceCode))
            /\ pc' = "analyzers"
            /\ scanned' = scanned \cup { "source" }
            /\ UNCHANGED << bytecodeFindings, result >>
       ELSE IF usingFallback
       THEN \* rpcClient.provider.getCode is awaited outside any inner try
            \/ \E b \in Bytecodes :
                 /\ bytecodeFindings' = analyzeBytecode(b)
                 /\ pc' = "analyzers"
                 /\ scanned' = scanned \cup { "bytecode" }
                 /\ UNCHANGED << contractInfo, codeAnalysis, result >>
            \/ /\ pc' = "failed"
               /\ result' = AnalysisFailed
               /\ UNCHANGED << contractInfo, codeAnalysis, bytecodeFindings, scanned >>
       ELSE /\ pc' = "analyzers"
            /\ UNCHANGED << contractInfo, codeAnalysis, bytecodeFindings, result,
                            scanned >>
    /\ UNCHANGED << etherscanError, sourcifyData >>
    /\ UNCHANGED << req, trace, usingFallback,
                    ownershipAnalysis, liquidityAnalysis, behaviorAnalysis, tokenInfo,
                    tokenSnifferResult, goplusResult, creatorHistoryAnalysis,
                    holderAnalysis, creatorHoldingAnalysis >>
    /\ UNCHANGED << serverVars, adapterVars >>

\* agent.js:134-180 : ownership, liquidity, behavior, token info
Analyzers ==
    /\ pc = "analyzers"
    /\ IF ~usingFallback
       THEN \E o \in OwnershipOutcomes :
              ownershipAnalysis' = analyzeOwnership(req.contract_address, o)
       ELSE UNCHANGED ownershipAnalysis
    /\ IF req.scan_depth = "deep"
       THEN \E l \in LiquidityOutcomes : liquidityAnalysis' = analyzeLiquidity(l)
       ELSE UNCHANGED liquidityAnalysis
    /\ \E obs \in BehaviorObservations :
         behaviorAnalysis' = analyzeBehavior(contractInfo, obs)
    /\ \E ti \in TokenInfos : tokenInfo' = ti
    /\ pc' = "oracles"
    /\ UNCHANGED << etherscanError, sourcifyData >>
    /\ UNCHANGED << req, trace, contractInfo, usingFallback, codeAnalysis,
                    bytecodeFindings, tokenSnifferResult, goplusResult,
                    creatorHistoryAnalysis, holderAnalysis, creatorHoldingAnalysis,
                    result >>
    /\ scanned' = scanned \cup { "behavior" }
                       \cup (IF ~usingFallback THEN { "ownership" } ELSE {})
                       \cup (IF req.scan_depth = "deep" THEN { "liquidity" } ELSE {})
    /\ UNCHANGED << serverVars, adapterVars >>

\* agent.js:182-247 : Token Sniffer, GoPlus, creator history, holders
Oracles ==
    /\ pc = "oracles"
    /\ \E ts \in TokenSnifferResults : tokenSnifferResult' = ts
    /\ \E g \in GoPlusResults : goplusResult' = g
    /\ IF contractInfo.creator /\ req.scan_depth = "deep"
       THEN \E c \in CreatorHistoryOutcomes : creatorHistoryAnalysis' = c
       ELSE UNCHANGED creatorHistoryAnalysis
    /\ IF ~usingFallback /\ req.scan_depth = "deep"
       THEN /\ \E h \in HolderOutcomes : holderAnalysis' = h
            /\ IF contractInfo.creator
               THEN \E ch \in CreatorHoldingOutcomes : creatorHoldingAnalysis' = ch
               ELSE UNCHANGED creatorHoldingAnalysis
       ELSE UNCHANGED << holderAnalysis, creatorHoldingAnalysis >>
    /\ pc' = "score"
    /\ UNCHANGED << etherscanError, sourcifyData >>
    /\ UNCHANGED << req, trace, contractInfo, usingFallback, codeAnalysis,
                    bytecodeFindings, ownershipAnalysis, liquidityAnalysis,
                    behaviorAnalysis, tokenInfo, result >>
    /\ UNCHANGED << scanned, serverVars, adapterVars >>

\* agent.js:260-278 : the analyses object handed to calculateRiskScore
Analyses ==
    [codeAnalysis |-> codeAnalysis,
     ownershipAnalysis |-> ownershipAnalysis,
     liquidityAnalysis |-> liquidityAnalysis,
     behaviorAnalysis |-> behaviorAnalysis,
     contractInfo |-> [address |-> contractInfo.address,
                       verified |-> contractInfo.verified,
                       creator |-> contractInfo.creator,
                       creationTxHash |-> contractInfo.creationTxHash,
                       ageInDays |-> contractInfo.ageInDays,
                       transactionCount |-> contractInfo.transactionCount,
                       symbol |-> tokenInfo.symbol,
                       name |-> tokenInfo.name],
     tokenSnifferResult |-> tokenSnifferResult,
     tokenSnifferRisk |-> TokenSnifferCalculateRisk(tokenSnifferResult),
     goplusResult |-> goplusResult,
     goplusRisk |-> GoPlusCalculateRisk(goplusResult),
     creatorHistoryAnalysis |-> creatorHistoryAnalysis,
     holderAnalysis |-> holderAnalysis,
     creatorHoldingAnalysis |-> creatorHoldingAnalysis]

\* agent.js:285 : calculateConfidence({ codeAnalysis, ownershipAnalysis })
ConfidenceArguments ==
    [codeAnalysis |-> codeAnalysis,
     ownershipAnalysis |-> ownershipAnalysis,
     liquidityAnalysis |-> [present |-> FALSE],
     contractInfo |-> [present |-> FALSE, verified |-> FALSE, ageInDays |-> 0],
     tokenSnifferResult |-> TokenSnifferNull,
     goplusResult |-> GoPlusNull,
     creatorHistoryAnalysis |-> DefaultExternal]

\* agent.js:249-285 : riskScore of the run
RiskScoreOfRun ==
    IF usingFallback
    THEN calculateRPCOnlyRiskScore(contractInfo, goplusResult, bytecodeFindings)
    ELSE calculateRiskScore(Analyses)

\* agent.js:286 : compileSecurityChecks({ codeAnalysis, ownershipAnalysis,
\* goplusResult })
SecurityChecksArguments ==
    [codeAnalysis |-> codeAnalysis,
     ownershipAnalysis |-> ownershipAnalysis,
     goplusResult |-> goplusResult,
     liquidityAnalysis |-> [present |-> FALSE, lpLocked |-> FALSE, lpBurned |-> FALSE],
     contractInfo |-> [present |-> FALSE, verified |-> FALSE, isProxy |-> FALSE]]

\* agent.js:249-282 : vulnerabilities of the run
VulnerabilitiesOfRun ==
    IF usingFallback
    THEN calculateRPCOnlyVulnerabilities(contractInfo, goplusResult, bytecodeFindings)
    ELSE compileVulnerabilities(Analyses)

\* agent.js:249-372 : score, level, confidence, the RiskRecord
Score ==
    /\ pc = "score"
    /\ result' =
         [status |-> "ok",
          risk_score |-> RiskScoreOfRun,
          risk_level |-> getRiskLevel(RiskScoreOfRun),
          confidence |-> IF usingFallback THEN 70
                         ELSE calculateConfidence(ConfidenceArguments),
          verified |-> contractInfo.verified,
          is_proxy |-> contractInfo.isProxy,
          vulnerabilities |-> VulnerabilitiesOfRun,
          security_checks |-> compileSecurityChecks(SecurityChecksArguments)]
    /\ pc' = "done"
    /\ UNCHANGED << etherscanError, sourcifyData >>
    /\ UNCHANGED << req, trace, contractInfo, usingFallback, codeAnalysis,
                    bytecodeFindings, ownershipAnalysis, liquidityAnalysis,
                    behaviorAnalysis, tokenInfo, tokenSnifferResult, goplusResult,
                    creatorHistoryAnalysis, holderAnalysis, creatorHoldingAnalysis >>
    /\ UNCHANGED << scanned, serverVars, adapterVars >>

\* the run has returned; the next request starts from fresh locals
Return ==
    /\ pc \in {"done", "failed"}
    /\ pc' = "idle"
    /\ req' = NoRequest
    /\ trace' = << >>
    /\ etherscanError' = FALSE
    /\ sourcifyData' = SourcifyNotQueried
    /\ contractInfo' = NoContractInfo
    /\ usingFallback' = FALSE
    /\ codeAnalysis' = DefaultCodeAnalysis
    /\ bytecodeFindings' = {}
    /\ ownershipAnalysis' = DefaultOwnership
    /\ liquidityAnalysis' = DefaultLiquidity
    /\ behaviorAnalysis' = DefaultBehavior
    /\ tokenInfo' = DefaultTokenInfo
    /\ tokenSnifferResult' = TokenSnifferNull
    /\ goplusResult' = GoPlusNull
    /\ creatorHistoryAnalysis' = DefaultExternal
    /\ holderAnalysis' = DefaultExternal
    /\ creatorHoldingAnalysis' = DefaultExternal
    /\ result' = NoResult
    /\ scanned' = {}
    /\ UNCHANGED << serverVars, adapterVars >>

Next ==
    \/ Request
    \/ TryPrimary
    \/ TryDecentralizedVerification
    \/ FallbackChainRead
    \/ CodeStep
    \/ Analyzers
    \/ Oracles
    \/ Score
    \/ Return

Spec == Init /\ [][Next]_vars

TypeOK ==
    /\ pc \in {"idle", "TryPrimary", "TryDecentralizedVerification", "FallbackChainRead",
               "code", "analyzers", "oracles", "score", "done", "failed"}
    /\ usingFallback \in BOOLEAN
    /\ result.status \in {"none", "ok", "error"}


(***************************************************************************)
(* The HTTP server: POST /analyze and POST /analyze-batch, each invoking   *)
(* analyzeContract, whose pipeline (agent.js:71-365) is one step here: it  *)
(* returns a RiskRecord or fails.  Requests interleave at their awaits.    *)
(***************************************************************************)
\* the invocations of analyzeContract whose pipeline is running
RunningCalls == { s \in 1..MaxCalls : calls[s].st = "running" }
RunningItems ==
    { i \in 1..Len(batch.items) : batch.st = "running" /\ batch.items[i].st = "running" }

\* the requests received and not yet answered
InFlight ==
    Cardinality({ s \in 1..MaxCalls : calls[s].st # "free" })
    + (IF batch.st = "none" THEN 0 ELSE 1)

\* agent.js:433-467 : POST /analyze up to the first await of analyzeContract:
\* ScanInputSchema.parse, then cache.get (agent.js:62-69)
PostAnalyze ==
    /\ InFlight < MaxCalls
    /\ \E s \in 1..MaxCalls, a \in AnalyzeAddresses, d \in AnalyzeDepths :
         /\ calls[s].st = "free"
         /\ \A s2 \in 1..(s - 1) : calls[s2].st # "free"
         /\ IF ~isValidAddress(a)
            THEN /\ calls' = [calls EXCEPT ![s] =
                       [NoCall EXCEPT !.st = "returned", !.contract_address = a,
                                      !.scan_depth = d, !.out = InvalidInputValue]]
                 /\ UNCHANGED rows
            ELSE LET cached == CacheGet(rows, a, ETHEREUM, d, now)
                 IN  /\ rows' = CacheAfterGet(rows, a, ETHEREUM, d, now)
                     /\ IF cached.kind # "null"
                        THEN calls' = [calls EXCEPT ![s] =
                               [NoCall EXCEPT !.st = "returned", !.contract_address = a,
                                              !.scan_depth = d, !.out = cached,
                                              !.fromCache = TRUE]]
                        ELSE calls' = [calls EXCEPT ![s] =
                               [NoCall EXCEPT !.st = "running", !.contract_address = a,
                                              !.scan_depth = d, !.issuedAt = now,
                                              !.evicted =
                                                 (rows' # rows)]]
    /\ UNCHANGED << now, batch, pipelineVars, adapterVars >>

\* agent.js:71-384 : the pipeline of a call ends; a RiskRecord is stored by
\* cache.set (agent.js:368), a failure is returned without being stored
PipelineReturns ==
    /\ \E s \in RunningCalls, o \in RiskRecords \cup { AnalysisFailedValue } :
         /\ calls' = [calls EXCEPT ![s].st = "returned", ![s].out = o,
                                   ![s].issuedAt = 0]
         /\ rows' = RowsAfterRun(rows, calls[s].contract_address,
                                 calls[s].scan_depth, o, now)
    /\ UNCHANGED << now, batch, pipelineVars, adapterVars >>

\* the response of POST /analyze has been sent
ResponseSent ==
    /\ \E s \in 1..MaxCalls :
         /\ calls[s].st = "returned"
         /\ calls' = [calls EXCEPT ![s] = NoCall]
    /\ UNCHANGED << rows, now, batch, pipelineVars, adapterVars >>

\* time passes
Tick ==
    /\ \E d \in ClockSteps :
         /\ now + d <= MaxNow
         /\ now' = now + d
    /\ UNCHANGED << rows, calls, batch, pipelineVars, adapterVars >>

\* the process restarts: new CacheDB() runs initTables and cleanOldEntries
\* (token-sniffer.js:1122-1152)
Restart ==
    /\ RunningCalls = {} /\ batch.st = "none"
    /\ rows' = cleanOldEntries(rows, now)
    /\ calls' = [s \in 1..MaxCalls |-> NoCall]
    /\ UNCHANGED << now, batch, pipelineVars, adapterVars >>

\* a limit one above the handler's
BatchTooLarge_AboveEleven(contracts) == Len(contracts) > BatchLimit + 1

\* agent.js:483-488 : if (body.contracts.length > 10)
BatchTooLarge(contracts) == Len(contracts) > BatchLimit

\* agent.js:497-511 : one element of body.contracts.map(...), up to its first
\* await: ScanInputSchema.parse, then cache.get inside analyzeContract
BatchItem(t, address, scanDepth, at) ==
    IF ~isValidAddress(address)
    THEN [st |-> "settled", out |-> AnalysisFailedValue, fromCache |-> FALSE]
    ELSE LET cached == CacheGet(t, address, ETHEREUM, scanDepth, at)
         IN  IF cached.kind # "null"
             THEN [st |-> "settled", out |-> cached, fromCache |-> TRUE]
             ELSE [st |-> "running", out |-> NullValue, fromCache |-> FALSE]

\* the table after the cache.get of every valid element
RECURSIVE RowsAfterGets(_, _, _, _)
RowsAfterGets(t, contracts, scanDepth, at) ==
    IF contracts = << >>
    THEN t
    ELSE RowsAfterGets(IF isValidAddress(Head(contracts))
                       THEN CacheAfterGet(t, Head(contracts), ETHEREUM, scanDepth, at)
                       ELSE t,
                       Tail(contracts), scanDepth, at)

\* agent.js:470-511 : POST /analyze-batch up to the await of Promise.allSettled
PostAnalyzeBatch ==
    /\ batch.st = "none"
    /\ InFlight < MaxCalls
    /\ \E body \in BatchBodies, d \in { "quick" } :
         IF Len(body) = 0
         THEN /\ batch' = [NoBatch EXCEPT !.st = "responded", !.contracts = body,
                                          !.status = 400, !.error = "Invalid input"]
              /\ UNCHANGED rows
         ELSE IF BatchTooLarge(body)
         THEN /\ batch' = [NoBatch EXCEPT !.st = "responded", !.contracts = body,
                                          !.status = 400, !.error = "Batch too large"]
              /\ UNCHANGED rows
         ELSE LET items == [i \in 1..Len(body) |-> BatchItem(rows, body[i], d, now)]
              IN  /\ Cardinality({ i \in 1..Len(body) : items[i].st = "running" })
                       <= MaxCalls
                  /\ batch' = [NoBatch EXCEPT !.st = "running", !.contracts = body,
                                              !.scan_depth = d, !.items = items]
                  /\ rows' = RowsAfterGets(rows, body, d, now)
    /\ UNCHANGED << now, calls, pipelineVars, adapterVars >>

\* agent.js:71-384 : the pipeline of one element of the batch ends
BatchItemReturns ==
    /\ \E i \in RunningItems, o \in RiskRecords \cup { AnalysisFailedValue } :
         /\ batch' = [batch EXCEPT !.items[i] =
                        [st |-> "settled", out |-> o, fromCache |-> FALSE]]
         /\ rows' = RowsAfterRun(rows, batch.contracts[i], batch.scan_depth, o, now)
    /\ UNCHANGED << now, calls, pipelineVars, adapterVars >>

\* a fan-out in which the first failure becomes the result of every element
BatchResults_FirstFailureForAll(contracts, items) ==
    [i \in 1..Len(items) |->
        [contract_address |-> contracts[i],
         status |-> "fulfilled",
         result |-> IF \E j \in 1..Len(items) : items[j].out.kind = "error"
                    THEN AnalysisFailedValue
                    ELSE JSONStringify(items[i].out)]]

\* agent.js:517-521 : const analyzed = results.map(...)
BatchResults(contracts, items) ==
    [i \in 1..Len(items) |->
        [contract_address |-> contracts[i],
         status |-> "fulfilled",
         result |-> JSONStringify(items[i].out)]]

\* agent.js:523 : analyzed.filter(r => r.status === 'fulfilled' && !r.result.error)
BatchSuccessful(analyzed) ==
    Cardinality({ i \in 1..Len(analyzed) :
                    analyzed[i].status = "fulfilled" /\ analyzed[i].result.kind = "record" })

\* agent.js:496-533 : every promise has settled; compile and send the response
BatchRespond ==
    /\ batch.st = "running"
    /\ RunningItems = {}
    /\ LET analyzed == BatchResults(batch.contracts, batch.items)
       IN  batch' = [batch EXCEPT !.st = "responded",
                                  !.status = 200,
                                  !.results = analyzed,
                                  !.successful = BatchSuccessful(analyzed),
                                  !.failed = Len(analyzed) - BatchSuccessful(analyzed)]
    /\ UNCHANGED << rows, now, calls, pipelineVars, adapterVars >>

\* the response of POST /analyze-batch has been sent
BatchResponseSent ==
    /\ batch.st = "responded"
    /\ batch' = NoBatch
    /\ UNCHANGED << rows, now, calls, pipelineVars, adapterVars >>

ServerNext ==
    \/ PostAnalyze
    \/ PipelineReturns
    \/ ResponseSent
    \/ Tick
    \/ Restart
    \/ PostAnalyzeBatch
    \/ BatchItemReturns
    \/ BatchRespond
    \/ BatchResponseSent

ServerSpec == Init /\ [][ServerNext]_vars

ServerTypeOK ==
    /\ now \in 0..(MaxNow + 1)
    /\ \A s \in 1..MaxCalls : calls[s].st \in { "free", "running", "returned" }
    /\ batch.st \in { "none", "running", "responded" }
    /\ \A r \in rows : r.created_at <= now


(***************************************************************************)
(* The liquidity analyzer's classification of the holders of one pair      *)
(* (unnamed/part_002:209-270)                                              *)
(***************************************************************************)
\* an LP-token transfer of the pair is on the chain before the analysis
LpTransfer ==
    /\ lp.st = "listing"
    /\ Len(lp.transfers) < MaxTransfers
    /\ \E f \in LpSenders, t \in LpReceivers, v \in LpValues, ts \in LpSupplies :
         lp' = [lp EXCEPT !.transfers = Append(@, [from |-> f, to |-> t, value |-> v]),
                          !.totalSupply = ts]
    /\ UNCHANGED << pipelineVars, serverVars, hist, limiter >>

\* unnamed/part_002:209-270 : one call of analyzeLiquidityPair
AnalyzeLiquidityPair ==
    /\ lp.st = "listing"
    /\ lp' = [lp EXCEPT !.st = "analyzed",
                        !.analysis = analyzeLiquidityPair(lp.transfers, lp.totalSupply)]
    /\ UNCHANGED << pipelineVars, serverVars, hist, limiter >>

\* the analysis has been used; the next call is for another pair
PairAnalysisReturned ==
    /\ lp.st = "analyzed"
    /\ lp' = NoPairCall
    /\ UNCHANGED << pipelineVars, serverVars, hist, limiter >>

LiquidityNext ==
    \/ LpTransfer
    \/ AnalyzeLiquidityPair
    \/ PairAnalysisReturned

LiquiditySpec == Init /\ [][LiquidityNext]_vars


(***************************************************************************)
(* The creator-history adapter (token-sniffer.js:580-752)                  *)
(***************************************************************************)
\* token-sniffer.js:606-614 : the creator's transactions are listed and the
\* creation transactions counted
ListCreations ==
    /\ hist.st = "start"
    /\ \E n \in 0..MaxDeployed :
         hist' = [hist EXCEPT !.st = "loop", !.total_contracts_deployed = n]
    /\ UNCHANGED << pipelineVars, serverVars, lp, limiter >>

\* token-sniffer.js:606, 660-664 : listing the transactions fails
ListCreationsFails ==
    /\ hist.st = "start"
    /\ hist' = [hist EXCEPT !.st = "returned", !.analyzed = FALSE]
    /\ UNCHANGED << pipelineVars, serverVars, lp, limiter >>

\* token-sniffer.js:621-650 : one iteration of the loop over recentCreations
InspectCreation ==
    /\ hist.st = "loop"
    /\ hist.inspected < Min(hist.total_contracts_deployed, InspectLimit)
    /\ \E hasAddress \in BOOLEAN, age \in DeployedAges, txs \in DeployedTxCounts,
          last \in DaysSinceLastTx, failed \in BOOLEAN :
         LET c == analyzeDeployedContract(age, txs, last, failed)
         IN  hist' = IF ~hasAddress
                   THEN [hist EXCEPT !.inspected = @ + 1]
                   ELSE [hist EXCEPT
                           !.inspected = @ + 1,
                           !.contracts = @ + 1,
                           !.abandoned_contracts = IF c.abandoned THEN @ + 1 ELSE @,
                           !.recent_deployments = IF age < 30 THEN @ + 1 ELSE @]
    /\ UNCHANGED << pipelineVars, serverVars, lp, limiter >>

\* token-sniffer.js:652-656 : after the loop, the patterns are detected
DetectSuspiciousPatterns ==
    /\ hist.st = "loop"
    /\ hist.inspected = Min(hist.total_contracts_deployed, InspectLimit)
    /\ hist' = [hist EXCEPT !.st = "returned",
                        !.suspicious_pattern = detectCreatorPatterns(hist)]
    /\ UNCHANGED << pipelineVars, serverVars, lp, limiter >>

\* the analysis has been returned; the next call is for another creator
CreatorHistoryReturned ==
    /\ hist.st = "returned"
    /\ hist' = NoCreatorCall
    /\ UNCHANGED << pipelineVars, serverVars, lp, limiter >>

CreatorNext ==
    \/ ListCreations
    \/ ListCreationsFails
    \/ InspectCreation
    \/ DetectSuspiciousPatterns
    \/ CreatorHistoryReturned

CreatorSpec == Init /\ [][CreatorNext]_vars


(***************************************************************************)
(* The rate limiter in front of every route (unnamed/part_000:6-53,        *)
(* agent.js:45-46)                                                         *)
(***************************************************************************)
\* Date.now() advances
LimiterClockAdvances ==
    /\ \E i \in 1..Len(LimiterClock) :
         /\ LimiterClock[i] > limiter.now
         /\ limiter' = [limiter EXCEPT !.now = LimiterClock[i]]
    /\ UNCHANGED << pipelineVars, serverVars, lp, hist >>

\* unnamed/part_000:11-52 : the middleware serves one request.  It has no
\* await before next(), so that it runs without interleaving.
RateLimiterRequest ==
    /\ \E ip \in IPs :
         LET t == limiter.now
             data == CountedRequest(limiter.requestCounts, ip, t)
             status == LimiterStatus(data)
             w == limiter.window[ip]
             began == w.start < 0 \/ t - w.start > 60000
             forwardedBefore == IF began THEN 0 ELSE w.forwarded
         IN  /\ data.count <= MAX_REQUESTS + MaxOverflow
             /\ limiter' =
                  [limiter EXCEPT
                     !.requestCounts =
                         [CleanedCounts(limiter.requestCounts, t) EXCEPT ![ip] = data],
                     !.window[ip] =
                         [start |-> IF began THEN t ELSE w.start,
                          forwarded |-> forwardedBefore
                                        + (IF status = "next" THEN 1 ELSE 0)],
                     !.last = [ip |-> ip, status |-> status]]
    /\ UNCHANGED << pipelineVars, serverVars, lp, hist >>

LimiterNext ==
    \/ LimiterClockAdvances
    \/ RateLimiterRequest

LimiterSpec == Init /\ [][LimiterNext]_vars


(***************************************************************************)
(* Properties                                                              *)
(***************************************************************************)
\* the run returned a RiskRecord
Returned == pc = "done" /\ result.status = "ok"

\* the weighted sum of the run before clamping, in tenths of a point
RawScore10 == 500 + 4 * internalAdjustments(Analyses) + 6 * externalAdjustments(Analyses)

\* some scam keyword is a substring of the lower-cased name, or of the symbol
NameOrSymbolHasScamKeyword ==
    \E k \in 1..Len(scamKeywords) :
        \/ includes(toLowerCase(tokenInfo.name), scamKeywords[k])
        \/ includes(toLowerCase(tokenInfo.symbol), scamKeywords[k])

\* some stablecoin keyword is a substring of the lower-cased symbol, or name
SymbolOrNameHasStablecoinKeyword ==
    \E k \in 1..Len(stablecoinKeywords) :
        \/ includes(toLowerCase(tokenInfo.symbol), stablecoinKeywords[k])
        \/ includes(toLowerCase(tokenInfo.name), stablecoinKeywords[k])

\* the request's address, lower-cased, is on the allow-list
AddressOnAllowList == toLowerCase(req.contract_address) \in KNOWN_SAFE_TOKENS

\* C1: every RiskRecord returned by analyzeContract, on the full and on the
\* fallback scoring path, has an integer risk_score with 0 <= risk_score <= 100.
C1_ScoreInRange == Returned => result.risk_score \in 0..100

\* C1 witness: a full-path run whose weighted sum exceeds 100 before clamping
C1_Witness == Returned /\ ~usingFallback /\ ~NameOrSymbolHasScamKeyword
              /\ RawScore10 > 1000 /\ result.risk_score = 100

\* C2 (as claimed): a scam keyword in the token name or symbol makes the score
\* exactly 95, whatever the other inputs and the data-source mode.
C2_ScamKeywordScores95 ==
    (Returned /\ NameOrSymbolHasScamKeyword) => result.risk_score = 95

\* C3 (as claimed): an allow-listed address gets score <= 15 and level low,
\* whatever the other inputs and the data-source mode.  The scam short-circuit
\* comes first in the aggregator's order, so the claim is stated for tokens
\* whose name and symbol carry no scam keyword.
C3_AllowListedAtMost15 ==
    (Returned /\ AddressOnAllowList
       /\ ~detectScamKeywords(tokenInfo.name, tokenInfo.symbol)) =>
        (result.risk_score <= 15 /\ result.risk_level = "low")

\* C4 (as claimed): a verified contract whose symbol or name matches a
\* stablecoin keyword gets a final score <= 20.
C4_VerifiedStablecoinAtMost20 ==
    (Returned /\ contractInfo.verified /\ SymbolOrNameHasStablecoinKeyword) =>
        result.risk_score <= 20

\* C4 (amended): a verified contract whose symbol or name matches a stablecoin
\* keyword and whose name and symbol contain no scam keyword gets a final
\* score <= 20.
C4_VerifiedStablecoinNoScamAtMost20 ==
    (Returned /\ contractInfo.verified /\ SymbolOrNameHasStablecoinKeyword
       /\ ~detectScamKeywords(tokenInfo.name, tokenInfo.symbol)) =>
        result.risk_score <= 20

\* C4 witness: such a contract, not allow-listed, whose weighted sum is above
\* 20 and is capped to 20
C4_Witness ==
    /\ Returned /\ contractInfo.verified /\ SymbolOrNameHasStablecoinKeyword
    /\ ~detectScamKeywords(tokenInfo.name, tokenInfo.symbol)
    /\ ~AddressOnAllowList
    /\ RawScore10 > 200
    /\ result.risk_score = 20


\* the four analyzer contributions of the run; the code contribution is the
\* scanner's score, or the 15-point penalty of an unverified, unscanned contract
AnalyzerContributions ==
    (IF codeAnalysis.analyzed THEN codeAnalysis.score
     ELSE IF contractInfo.verified THEN 0 ELSE 15)
    + ownershipAnalysis.score + liquidityAnalysis.score + behaviorAnalysis.score

\* the oracle contributions of the run
OracleContributions ==
    TokenSnifferCalculateRisk(tokenSnifferResult).score
    + GoPlusCalculateRisk(goplusResult).score
    + creatorHistoryAnalysis.score + holderAnalysis.score + creatorHoldingAnalysis.score

\* derived finding: old contract (> 365 days) with under one transaction a day
OldLowActivityPoints ==
    IF /\ ~AddressOnAllowList
       /\ contractInfo.ageInDays > 365
       /\ contractInfo.transactionCount < 5000
       /\ contractInfo.transactionCount < contractInfo.ageInDays
       /\ (~contractInfo.verified \/ contractInfo.ageInDays < 730)
    THEN 15 ELSE 0

\* derived finding: unverified contract older than 30 days
UnverifiedOldPoints ==
    IF ~AddressOnAllowList /\ ~contractInfo.verified /\ contractInfo.ageInDays > 30
    THEN 20 ELSE 0

\* derived findings of the "API not found" detector
ApiNotFoundPoints ==
    IF (~contractInfo.creator /\ ~contractInfo.creationTxHash)
       \/ contractInfo.transactionCount = 0
    THEN 40
    ELSE IF goplusResult.kind = "unchecked" /\ contractInfo.ageInDays > 30
    THEN 10 ELSE 0

\* clamp to [0, 100], then the allow-list cap (15) or else the verified
\* stablecoin cap (20), then rounding; argument and caps in tenths
ClampCapRound(raw10) ==
    LET clamped == IF raw10 < 0 THEN 0 ELSE IF raw10 > 1000 THEN 1000 ELSE raw10
        capped  == IF AddressOnAllowList
                   THEN (IF clamped > 150 THEN 150 ELSE clamped)
                   ELSE IF contractInfo.verified /\ SymbolOrNameHasStablecoinKeyword
                   THEN (IF clamped > 200 THEN 200 ELSE clamped)
                   ELSE clamped
    IN  (capped + 5) \div 10

FullPathNoScam ==
    Returned /\ ~usingFallback /\ ~detectScamKeywords(tokenInfo.name, tokenInfo.symbol)

C6_LevelIsThresholdOfScore ==
    Returned =>
        /\ (result.risk_score >= 80) = (result.risk_level = "critical")
        /\ (result.risk_score >= 60 /\ result.risk_score < 80) = (result.risk_level = "high")
        /\ (result.risk_score >= 40 /\ result.risk_score < 60) = (result.risk_level = "medium")
        /\ (result.risk_score < 40) = (result.risk_level = "low")


\* C6 witness: a record whose score sits exactly on the critical threshold
C6_Witness == Returned /\ result.risk_score = 80 /\ result.risk_level = "critical"

\* the resolver stages in the order of agent.js:87-113
ResolverStages == << "TryPrimary", "TryDecentralizedVerification", "FallbackChainRead" >>

\* the resolver has left a ContractInfo behind and the run has moved on
Resolved == pc \in { "code", "analyzers", "oracles", "score", "done" }

\* C7: the resolver is strictly linear.  The stages run so far are a prefix of
\* primary, decentralized verification, chain-read fallback (hence no stage runs
\* twice); the decentralized stage has run only if the primary call raised an
\* error; the chain-read fallback has run only if the decentralized stage
\* yielded no verified source; and usingFallback is true exactly when the
\* ContractInfo came from the chain-read fallback stage.
C7_ResolverStrictlyLinear ==
    /\ Len(trace) <= 3
    /\ \A i \in 1..Len(trace) : trace[i] = ResolverStages[i]
    /\ (Len(trace) >= 2 => etherscanError)
    /\ (etherscanError => (Len(trace) >= 2 \/ pc = "TryDecentralizedVerification"))
    /\ (Len(trace) = 3 => (sourcifyData.kind = "null" /\ ~sourcifyData.verified))
    /\ (usingFallback <=> (Len(trace) = 3 /\ contractInfo # NoContractInfo))
    /\ (Resolved => contractInfo # NoContractInfo)

\* C7 witness: a run resolved by the chain-read fallback after the primary call
\* raised an error and the decentralized stage found nothing
C7_Witness ==
    /\ pc = "done"
    /\ trace = ResolverStages
    /\ etherscanError /\ sourcifyData.kind = "null" /\ usingFallback

\* C8 (as claimed): once the primary explorer has failed and the decentralized
\* verification service has returned verified source, the run has a verified
\* ContractInfo with usingFallback = false and does not fail, whatever the chain
\* reads of that stage do.
C8_SourcifyVerifiedEndsVerified ==
    (etherscanError /\ sourcifyData.kind = "data" /\ sourcifyData.verified) =>
        (pc # "failed" /\ contractInfo.verified /\ ~usingFallback)

\* C9 (as claimed): the run returns an analysis failure only when data-source
\* resolution failed, that is when no resolver stage produced a ContractInfo.
C9_FailureOnlyFromResolution ==
    (pc = "failed") => (contractInfo = NoContractInfo)

\* the score of the run had the two oracle adapters returned ts and g
ScoreWithOracles(ts, g) ==
    IF usingFallback
    THEN calculateRPCOnlyRiskScore(contractInfo, g, bytecodeFindings)
    ELSE calculateRiskScore([Analyses EXCEPT
                               !.tokenSnifferResult = ts,
                               !.tokenSnifferRisk = TokenSnifferCalculateRisk(ts),
                               !.goplusResult = g,
                               !.goplusRisk = GoPlusCalculateRisk(g)])

\* C10 (as claimed): an oracle adapter whose call failed, timed out, was
\* rate-limited or did not find the token contributes zero: the score equals
\* the score of the same run with that oracle returning nothing.
C10_FailedOracleContributesZero ==
    Returned =>
        /\ (tokenSnifferResult.kind = "unchecked" =>
               result.risk_score = ScoreWithOracles(TokenSnifferNull, goplusResult))
        /\ (goplusResult.kind = "unchecked" =>
               result.risk_score = ScoreWithOracles(tokenSnifferResult, GoPlusNull))


(***************************************************************************)
(* Properties of the cache and of the HTTP server                          *)
(***************************************************************************)
\* the stored entries of the key of (address, ethereum, depth) whose age at
\* the current time is at most 3600 s
FreshRows(address, depth) ==
    { r \in rows : /\ r.contract_address = toLowerCase(address)
                   /\ r.chain = ETHEREUM
                   /\ r.scan_depth = depth
                   /\ now - r.created_at <= 3600 * 1000 }

\* call s is received in this step, with a valid address
Received(s) ==
    /\ calls[s].st = "free" /\ calls'[s].st # "free"
    /\ isValidAddress(calls'[s].contract_address)

\* the pipeline of call s ends in this step with a RiskRecord
Computed(s) ==
    /\ calls[s].st = "running" /\ calls'[s].st = "returned"
    /\ calls'[s].out.kind = "record"

\* C11: of two identical requests, the first returning a RiskRecord and the
\* second issued after it within 3600 s, the second returns the same record
\* from the cache: a run that returns a RiskRecord stores it under its key, and
\* a request issued while the entry of its key is at most 3600 s old returns
\* the stored record, identical as a response to the record the storing run
\* returned, without running the pipeline and without changing the cache.
\* (Requests that overlap in time are the subject of C13.)
C11_RequestAfterCompletedRunServedFromCache ==
    [][ \A s \in 1..MaxCalls :
          /\ Computed(s) =>
               \E r \in rows' :
                  /\ r.contract_address = toLowerCase(calls[s].contract_address)
                  /\ r.scan_depth = calls[s].scan_depth
                  /\ r.result = JSONStringify(calls'[s].out)
          /\ (Received(s) /\ FreshRows(calls'[s].contract_address, calls'[s].scan_depth) # {})
               => /\ calls'[s].st = "returned" /\ calls'[s].fromCache
                  /\ \E r \in FreshRows(calls'[s].contract_address, calls'[s].scan_depth) :
                        JSONStringify(calls'[s].out) = r.result
                  /\ rows' = rows ]_vars

\* C11 witness: a request served from the cache when the stored record is
\* exactly 3600 s old
C11_Witness ==
    \E s \in 1..MaxCalls :
       /\ calls[s].st = "returned" /\ calls[s].fromCache
       /\ calls[s].out.kind = "record"
       /\ \E r \in rows : /\ r.result = JSONStringify(calls[s].out)
                          /\ now - r.created_at = 3600 * 1000


\* the stored entries of the key of (address, ethereum, depth)
StoredRows(address, depth) ==
    { r \in rows : /\ r.contract_address = toLowerCase(address)
                   /\ r.chain = ETHEREUM
                   /\ r.scan_depth = depth }

\* C12: a cache read returns a stored entry if and only if now - storedAt is
\* at most 3600 s; when it is more, the read is a miss, the entry is removed and
\* the request runs the pipeline, whose RiskRecord is stored with the time of
\* its completion.  No record older than 3600 s is returned.
C12_ReadHitsExactlyWithinTTL ==
    [][ \A s \in 1..MaxCalls :
          /\ Received(s) =>
               LET stored == StoredRows(calls'[s].contract_address, calls'[s].scan_depth)
               IN  /\ (calls'[s].st = "returned" /\ calls'[s].fromCache)
                         <=> (\E r \in stored : now - r.created_at <= 3600 * 1000)
                   /\ (calls'[s].st = "returned") =>
                         \E r \in stored : /\ JSONStringify(calls'[s].out) = r.result
                                           /\ now - r.created_at <= 3600 * 1000
                   /\ (\E r \in stored : now - r.created_at > 3600 * 1000) =>
                         /\ calls'[s].st = "running"
                         /\ \A r \in rows' :
                               ~(/\ r.contract_address = toLowerCase(calls'[s].contract_address)
                                 /\ r.scan_depth = calls'[s].scan_depth)
          /\ Computed(s) =>
               \E r \in rows' :
                  /\ r.contract_address = toLowerCase(calls[s].contract_address)
                  /\ r.scan_depth = calls[s].scan_depth
                  /\ r.result = JSONStringify(calls'[s].out)
                  /\ r.created_at = now ]_vars

\* C12 witness: a request that found its entry expired has recomputed and
\* stored its record with the time of the recomputation
C12_Witness ==
    \E s \in 1..MaxCalls :
       /\ calls[s].st = "returned" /\ calls[s].evicted /\ ~calls[s].fromCache
       /\ calls[s].out.kind = "record"
       /\ \E r \in StoredRows(calls[s].contract_address, calls[s].scan_depth) :
             r.result = JSONStringify(calls[s].out) /\ r.created_at = now

\* C13: two requests for one key that both missed the cache each run the
\* pipeline; every cache write is an upsert, so once a run has stored its
\* record the table holds exactly one entry for the key, with the record and
\* the time of that write, and never two entries for one key.
C13_LastWriterWins ==
    [][ /\ \A s \in 1..MaxCalls :
             Computed(s) =>
                { r \in rows' : /\ r.contract_address = toLowerCase(calls[s].contract_address)
                                /\ r.scan_depth = calls[s].scan_depth }
                = { [contract_address |-> toLowerCase(calls[s].contract_address),
                     chain |-> ETHEREUM,
                     scan_depth |-> calls[s].scan_depth,
                     result |-> JSONStringify(calls'[s].out),
                     created_at |-> now] }
        /\ \A r1, r2 \in rows' :
             (r1.contract_address = r2.contract_address /\ r1.chain = r2.chain
                /\ r1.scan_depth = r2.scan_depth) => r1 = r2 ]_vars

\* C13 witness: two requests for one key have both run the pipeline and
\* returned different records; the table holds one entry for the key
C13_Witness ==
    \E s1, s2 \in 1..MaxCalls :
       /\ s1 # s2
       /\ calls[s1].st = "returned" /\ ~calls[s1].fromCache /\ calls[s1].out.kind = "record"
       /\ calls[s2].st = "returned" /\ ~calls[s2].fromCache /\ calls[s2].out.kind = "record"
       /\ toLowerCase(calls[s1].contract_address) = toLowerCase(calls[s2].contract_address)
       /\ calls[s1].scan_depth = calls[s2].scan_depth
       /\ calls[s1].out # calls[s2].out
       /\ Cardinality(StoredRows(calls[s1].contract_address, calls[s1].scan_depth)) = 1

\* C14: a batch runs one pipeline per listed contract and never aborts on a
\* failure: the response has one result per input address, at the index of the
\* address, which is the result of that address's own run; an invalid address
\* fails alone; and successful + failed = batch_size.
C14_BatchIsolatesFailures ==
    (batch.st = "responded" /\ batch.status = 200) =>
        /\ Len(batch.results) = Len(batch.contracts)
        /\ \A i \in 1..Len(batch.contracts) :
              /\ batch.results[i].contract_address = batch.contracts[i]
              /\ batch.results[i].result = JSONStringify(batch.items[i].out)
              /\ batch.results[i].result.kind \in { "record", "error" }
              /\ ~isValidAddress(batch.contracts[i]) =>
                    batch.results[i].result.kind = "error"
        /\ batch.successful =
              Cardinality({ i \in 1..Len(batch.contracts) :
                              batch.results[i].result.kind = "record" })
        /\ batch.successful + batch.failed = Len(batch.contracts)

\* C14 witness: the response to a batch of a valid and an invalid address
\* carries the RiskRecord of the first and the failure of the second
C14_Witness ==
    /\ batch.st = "responded" /\ batch.status = 200
    /\ batch.contracts = << USDC_ADDRESS, INVALID_ADDRESS >>
    /\ batch.results[1].result.kind = "record"
    /\ batch.results[2].result.kind = "error"
    /\ batch.successful = 1 /\ batch.failed = 1

\* C15: a batch of more than 10 addresses is answered 400 "Batch too large"
\* before any pipeline runs: the cache is neither read nor written (a read
\* would remove an expired entry) and no invocation of analyzeContract starts.
C15_BatchTooLargeRejected ==
    [][ (batch.st = "none" /\ batch'.st # "none" /\ Len(batch'.contracts) > 10) =>
           /\ batch'.st = "responded"
           /\ batch'.status = 400 /\ batch'.error = "Batch too large"
           /\ batch'.items = << >> /\ batch'.results = << >>
           /\ rows' = rows
           /\ calls' = calls ]_vars

\* C15 witness: a batch of 11 addresses has been rejected while the cache
\* holds an expired entry for the key of its first address
C15_Witness ==
    /\ batch.st = "responded" /\ Len(batch.contracts) = 11
    /\ batch.status = 400 /\ batch.error = "Batch too large"
    /\ \E r \in StoredRows(batch.contracts[1], "quick") : now - r.created_at > 3600 * 1000


(***************************************************************************)
(* Properties of the analyzers' part of analyzeContract                    *)
(***************************************************************************)
\* an analyzer or an oracle adapter failed in this run and the failure was
\* recovered: analyzeOwnership caught an error, or Token Sniffer or GoPlus
\* answered with checked: false
RecoveredFailure ==
    \/ (~usingFallback /\ ownershipAnalysis.error)
    \/ tokenSnifferResult.kind = "unchecked"
    \/ goplusResult.kind = "unchecked"

\* C16: whenever a failure of an analyzer or of an oracle adapter was recovered
\* in a run, the RiskRecord of the run contains an informational finding.
C16_RecoveredFailureHasInformationalFinding ==
    (Returned /\ RecoveredFailure) =>
        \E v \in result.vulnerabilities : v.severity = "info"

\* the analyzers' step of the run (agent.js:134-180) has been taken
AnalyzersDone == pc \in { "oracles", "score", "done" }

\* C17: the ownership checker and the behavioral scanner run unless the run
\* uses the fallback: with usingFallback neither is invoked, otherwise both.
C17_OwnershipAndBehaviorRunUnlessFallback ==
    AnalyzersDone =>
        IF usingFallback
        THEN scanned \cap { "ownership", "behavior" } = {}
        ELSE { "ownership", "behavior" } \subseteq scanned

\* the code step of the run (agent.js:116-132) has been taken to its end
CodeStepDone == pc \in { "analyzers", "oracles", "score", "done" }

C19_BytecodeFindingsCarryNoScore ==
    (Returned /\ usingFallback) =>
        \A findings \in SUBSET BytecodePatterns :
            calculateRPCOnlyRiskScore(contractInfo, goplusResult, findings)
              = result.risk_score

\* C19 witness: a fallback run without GoPlus data whose bytecode matched
\* every pattern has returned the base score of 10
C19_Witness ==
    /\ Returned /\ usingFallback
    /\ bytecodeFindings = BytecodePatterns
    /\ goplusResult.kind = "null"
    /\ result.risk_score = 10

\* the signals of the run that calculateConfidence (scoring.js:281-333) reads
\* from an analyses object: source, ownership, liquidity, age and the oracles
SignalsOfRun ==
    [codeAnalysis |-> codeAnalysis,
     ownershipAnalysis |-> ownershipAnalysis,
     liquidityAnalysis |-> [present |-> TRUE],
     contractInfo |-> [present |-> TRUE, verified |-> contractInfo.verified,
                       ageInDays |-> contractInfo.ageInDays],
     tokenSnifferResult |-> tokenSnifferResult,
     goplusResult |-> goplusResult,
     creatorHistoryAnalysis |-> creatorHistoryAnalysis]

\* C20: the confidence of a RiskRecord is 0.5 plus the fixed increment of every
\* corroborating signal present in the run (verified and analyzed source,
\* ownership data, liquidity data, age above 7 days, each oracle checked),
\* capped at 1.0, so that an oracle that was not checked lowers it.
C20_ConfidenceCountsSignals ==
    Returned => result.confidence = calculateConfidence(SignalsOfRun)

\* every combination of the signals calculateConfidence reads
SignalCombinations ==
    { [codeAnalysis |-> [analyzed |-> b[1]],
       ownershipAnalysis |-> DefaultOwnership,
       liquidityAnalysis |-> [present |-> b[2]],
       contractInfo |-> [present |-> b[3], verified |-> b[4],
                         ageInDays |-> IF b[5] THEN 8 ELSE 7],
       tokenSnifferResult |-> [kind |-> IF b[6] THEN "checked" ELSE "unchecked"],
       goplusResult |-> [kind |-> IF b[7] THEN "checked" ELSE "unchecked"],
       creatorHistoryAnalysis |-> [analyzed |-> b[8]]] : b \in [1..8 -> BOOLEAN] }

\* C21: the confidence of every RiskRecord lies in [0.0, 1.0] (0..100 in
\* hundredths), on the full path and on the fallback path, and
\* calculateConfidence stays in that range for every combination of signals
\* (a property of the function alone, evaluated between two runs).
C21_ConfidenceInRange ==
    /\ Returned => (result.confidence >= 0 /\ result.confidence <= 100)
    /\ (pc = "idle") =>
          \A a \in SignalCombinations :
              calculateConfidence(a) >= 0 /\ calculateConfidence(a) <= 100

\* C21 witness: a full-path run has returned whose signals are all present,
\* so that their increments add up to more than 1.0 before the cap
C21_Witness ==
    /\ Returned /\ ~usingFallback
    /\ calculateConfidence_Uncapped(SignalsOfRun) > 100
    /\ calculateConfidence(SignalsOfRun) = 100
    /\ result.confidence <= 100

\* a full-path run has returned for a contract with unverified source, no
\* transaction and no creation data
NoBlockchainPresence ==
    /\ Returned /\ ~usingFallback
    /\ ~contractInfo.verified
    /\ contractInfo.transactionCount = 0
    /\ ~contractInfo.creator /\ ~contractInfo.creationTxHash

\* C22: for a contract with unverified source, zero transaction count and no
\* creation data, detectAPINotFound yields a contract_not_found finding with a
\* score of at least 40, and that score is part of the external sum of the run.
C22_ContractNotFoundAddsForty ==
    NoBlockchainPresence =>
        LET found == detectAPINotFound(tokenSnifferResult, goplusResult,
                                       Analyses.contractInfo)
        IN  /\ \E i \in 1..Len(found) :
                  found[i].type = "contract_not_found" /\ found[i].score >= 40
            /\ externalAdjustments(Analyses) = OracleContributions + SumScores(found)
            /\ externalAdjustments(Analyses) >= OracleContributions + 40

\* C22 witness: such a run has returned, without a scam keyword, with a score
\* that contains the 0.6 * 40 points of the finding
C22_Witness ==
    /\ NoBlockchainPresence
    /\ ~detectScamKeywords(tokenInfo.name, tokenInfo.symbol)
    /\ OracleContributions = 0
    /\ RawScore10 = 500 + 4 * internalAdjustments(Analyses) + 6 * 40

\* C23: in every RiskRecord, security_checks.source_verified is true exactly
\* when contract_info.verified of the record is true, and
\* security_checks.proxy_contract exactly when the contract is a proxy.
C23_SecurityChecksMirrorContractInfo ==
    Returned =>
        /\ result.security_checks.source_verified <=> result.verified
        /\ result.security_checks.proxy_contract <=> result.is_proxy


\* C30: in every RiskRecord whose contract_info.verified is true, the
\* source-pattern scanner has run on a non-empty source: codeAnalysis.analyzed
\* is true, and no run reports verified while it skipped the source analysis.
C30_VerifiedRecordHasAnalyzedSource ==
    (Returned /\ result.verified) =>
        /\ codeAnalysis.analyzed
        /\ "source" \in scanned
        /\ contractInfo.sourceCode.nonEmpty


(***************************************************************************)
(* Further properties of the cache and of the HTTP server                  *)
(***************************************************************************)
\* C24: a cached record is returned only to a request whose (lower-cased
\* address, chain, scan_depth) is the key under which it was stored: a request
\* served from the cache gets the record of the entry of exactly its key, a
\* request whose key has no entry runs the pipeline whatever the entries of
\* the other scan depth are, and a read for another chain returns nothing.
\* Requests that differ in the letter case of the address have one key.
C24_CacheKeyedByLowerAddressChainDepth ==
    [][ \A s \in 1..MaxCalls :
          Received(s) =>
             LET a == calls'[s].contract_address
                 d == calls'[s].scan_depth
             IN  /\ calls'[s].fromCache =>
                       \E r \in StoredRows(a, d) : JSONStringify(calls'[s].out) = r.result
                 /\ (StoredRows(a, d) = {}) => calls'[s].st = "running"
                 /\ StoredRows(a, d) = StoredRows(toLowerCase(a), d)
                 /\ CacheGet(rows, a, POLYGON, d, now) = NullValue ]_vars

\* C24 witness: a request with the mixed-case address has been served the
\* record that the run of a request with the lower-case address computed,
\* while the other scan depth of the address has no entry
C24_Witness ==
    \E s1, s2 \in 1..MaxCalls :
       /\ calls[s1].st = "returned" /\ ~calls[s1].fromCache
       /\ calls[s1].out.kind = "record"
       /\ calls[s1].contract_address = USDC_LOWER
       /\ calls[s2].st = "returned" /\ calls[s2].fromCache
       /\ calls[s2].contract_address = USDC_ADDRESS
       /\ USDC_ADDRESS # USDC_LOWER
       /\ calls[s1].scan_depth = calls[s2].scan_depth
       /\ JSONStringify(calls[s1].out) = JSONStringify(calls[s2].out)
       /\ Cardinality(rows) = 1


\* the runs of POST /analyze and of POST /analyze-batch that end in this step
\* with the error result of the catch block
FailedCallsOfStep ==
    { c \in 1..MaxCalls : /\ calls[c].st = "running"
                          /\ calls'[c].st = "returned"
                          /\ calls'[c].out.kind = "error" }
FailedItemsOfStep ==
    { i \in RunningItems : /\ batch'.st = "running"
                           /\ batch'.items[i].st = "settled"
                           /\ batch'.items[i].out.kind = "error" }

\* the entry of the key of call c that CacheDB.get would return at this time
FreshRowsOfCall(c) ==
    { r \in RowsOf(rows, calls[c].contract_address, ETHEREUM, calls[c].scan_depth) :
        ~CacheExpired(r, now) }

\* C28: a run that ends with the error result writes or refreshes no cache
\* entry; the cache holds records of successful runs only; and an identical
\* request that follows the failed run, finding no fresh entry of a
\* successful run, runs the pipeline again.
C28_FailedRunLeavesCacheAlone ==
    [][ /\ (FailedCallsOfStep # {} \/ FailedItemsOfStep # {}) => rows' = rows
        /\ \A r \in rows' : r.result.kind = "record"
        /\ \A c, d \in 1..MaxCalls :
              ( /\ calls[c].st = "returned" /\ calls[c].out.kind = "error"
                /\ FreshRowsOfCall(c) = {}
                /\ calls[d].st = "free" /\ calls'[d].st # "free"
                /\ toLowerCase(calls'[d].contract_address)
                      = toLowerCase(calls[c].contract_address)
                /\ calls'[d].scan_depth = calls[c].scan_depth )
              => calls'[d].st = "running"
      ]_vars

\* a run has failed, the cache holds nothing for its key, and an identical
\* request is running the pipeline
C28_Witness ==
    \E c, d \in 1..MaxCalls :
        /\ calls[c].st = "returned" /\ calls[c].out.kind = "error"
        /\ RowsOf(rows, calls[c].contract_address, ETHEREUM, calls[c].scan_depth) = {}
        /\ calls[d].st = "running"
        /\ toLowerCase(calls[d].contract_address) = toLowerCase(calls[c].contract_address)
        /\ calls[d].scan_depth = calls[c].scan_depth
        /\ calls[d].issuedAt > 0


\* the rows that this step removes from scan_results without putting a row
\* of the same key in their place
RowsDeletedByStep ==
    { r \in rows : RowsOf(rows', r.contract_address, r.chain, r.scan_depth) = {} }

\* C29: a row is removed from the cache only when it is expired at the time
\* of the step that removes it: a read that finds an expired entry removes
\* that entry alone, and no interleaving of runs on one key lets it remove
\* the fresh entry that another run has stored.
C29_ReadRemovesOnlyExpiredEntry ==
    [][ \A r \in RowsDeletedByStep : CacheExpired(r, now) ]_vars

\* a run whose read removed the expired entry of its key is still running,
\* and the cache holds the fresh entry that another run has stored for it
C29_Witness ==
    \E c \in 1..MaxCalls :
        /\ calls[c].st = "running" /\ calls[c].evicted
        /\ \E r \in RowsOf(rows, calls[c].contract_address, ETHEREUM, calls[c].scan_depth) :
              /\ ~CacheExpired(r, now)
              /\ r.created_at >= calls[c].issuedAt


(***************************************************************************)
(* Properties of the adapters                                              *)
(***************************************************************************)
\* the addresses the liquidity analyzer is to treat as locked, in the form
\* in which addresses are compared: the burn address, the zero address and
\* every listed locker
LockedAddresses ==
    { BURN_ADDRESS, ZERO_ADDRESS }
    \cup { toLowerCase(KNOWN_LOCKERS[i]) : i \in 1..Len(KNOWN_LOCKERS) }

\* C25: an LP-token holder with at least 1% of the supply whose address is
\* the burn address, the zero address or any listed locker makes the pair
\* locked.
C25_LockerHolderMakesPairLocked ==
    (lp.st = "analyzed") =>
        \A h \in lp.analysis.holders :
            (h.address \in LockedAddresses) => lp.analysis.locked

\* the creator-history analysis has been returned by a call that did not fail
CreatorHistoryAnalyzed == hist.st = "returned" /\ hist.analyzed

InWindow(ip) ==
    /\ limiter.window[ip].start >= 0
    /\ limiter.now - limiter.window[ip].start <= 60000

\* this step is the rate limiter serving a request of ip: its request is
\* counted in requestCounts
LimiterServes(ip) ==
    /\ limiter'.requestCounts[ip] # limiter.requestCounts[ip]
    /\ limiter'.requestCounts[ip].present
    /\ limiter'.last.ip = ip

\* C27: per client address, at most 30 requests of one window reach a
\* handler; a request is answered 429 exactly when 30 requests of its
\* window were forwarded before it; and the counter of an address restarts
\* (or its entry is dropped) only when more than 60 s have elapsed since
\* the start of its window.
C27_AtMostThirtyForwardedPerWindow ==
    [][ \A ip \in IPs :
          /\ limiter'.window[ip].forwarded <= 30
          /\ LimiterServes(ip) =>
                (limiter'.last.status = "429"
                    <=> (InWindow(ip) /\ limiter.window[ip].forwarded >= 30))
          /\ ( /\ limiter.requestCounts[ip].present
               /\ \/ ~limiter'.requestCounts[ip].present
                  \/ limiter'.requestCounts[ip].windowStart
                         # limiter.requestCounts[ip].windowStart
                  \/ /\ LimiterServes(ip)
                     /\ limiter'.requestCounts[ip].count
                           # limiter.requestCounts[ip].count + 1 )
              => limiter.now - limiter.requestCounts[ip].windowStart > 60000
      ]_vars

\* a request that arrives exactly 60 s after the first request of a full
\* window has been answered 429
C27_Witness ==
    \E ip \in IPs :
        /\ limiter.last = [ip |-> ip, status |-> "429"]
        /\ limiter.window[ip].forwarded = 30
        /\ limiter.now - limiter.window[ip].start = 60000

====
